---- MODULE Spec2Model ----
(***************************************************************************)
(* Model of the tx-indexer of read-rpc: the stream driver (main.rs), the   *)
(* progress cursor and the storage statements (config.rs), and the         *)
(* transaction records of readnode-primitives (lib.rs).                    *)
(***************************************************************************)
EXTENDS Integers, Sequences, FiniteSets, TLC

(***************************************************************************)
(* Bounds of the model.                                                    *)
(***************************************************************************)
\* Block heights of the modelled chain are 0..MaxHeight.
MaxHeight == 2
\* Number of times the indexer process is started.
MaxRuns == 2

(***************************************************************************)
(* Program constants.                                                      *)
(***************************************************************************)
\* A buffer that lets two handlers run at once.
buffer_unordered_two == 1 + 1
buffer_unordered_three == 1 + 2
\* main.rs:56  .buffer_unordered(1usize)
buffer_unordered == 1
\* main.rs:108 i64::try_from(height): the largest value of the signed gauge.
\* Integer widths are scaled down (TLC integers are 32 bit): block heights
\* above I64_MAX stand for the u64 heights above 2^63 - 1.
I64_MAX == 1

Heights == 0..MaxHeight
IndexerIds == {"a", "b"}

VARIABLES
    \* ---- storage (ScyllaDB keyspace tx_indexer) ----
    meta,                   \* table meta: rows <<indexer_id, last_processed_block_height>>
    transactions_details,   \* table transactions_details: rows <<transaction_hash,
                            \*   block_height, account_id, transaction_details>>
    receipts_map,           \* table receipts_map: rows <<receipt_id, block_height,
                            \*   parent_transaction_hash, shard_id>>
    \* ---- environment ----
    chain_final,            \* height of the chain's final block
    \* ---- the indexer process ----
    proc,                   \* "stopped" | "running"
    runs,                   \* number of starts so far
    indexer_id,             \* opts.indexer_id of the current run
    chain_id,               \* opts.chain_id of the current run: its StartOptions
    stream_next,            \* next height the block stream delivers
    stream_open,            \* the block stream has not ended
    handlers,               \* handle_streamer_message futures in flight, in start order
    delivered,              \* heights delivered by the stream in this run, in order
    handled,                \* <<height, result, effects>> of the handlers completed in
                            \*   this run, in order
    main_return,            \* what main returned, and the sender result it matched on
    store_log,              \* the calls made on the transactions_details table alone
    BLOCK_PROCESSED_TOTAL,  \* metrics counter
    LATEST_BLOCK_HEIGHT,    \* metrics gauge
    \* ---- records of readnode-primitives (lib.rs) ----
    entry,                  \* a CollectingTransactionDetails
    details,                \* a TransactionDetails
    call,                   \* the method last called on entry or details
    ret,                    \* what that call returned
    args,                   \* the arguments of a constructor or conversion call
    locals,                 \* the iterator and captured variables of a call in progress
    \* ---- the record codec (lib.rs) ----
    blob,                   \* the byte string handed to the decoder
    old_decoders,           \* what each historical decoder returns for blob
    consulted               \* the decoders the last borsh_deserialize called, in order

driver_vars == <<meta, transactions_details, receipts_map, chain_final, proc, runs,
                 indexer_id, chain_id, stream_next, stream_open, handlers, delivered,
                 handled, main_return, store_log, BLOCK_PROCESSED_TOTAL,
                 LATEST_BLOCK_HEIGHT>>
record_vars == <<entry, details, call, ret, args, locals>>
codec_vars == <<blob, old_decoders, consulted>>
vars == <<driver_vars, record_vars, codec_vars>>

(***************************************************************************)
(* Records of readnode-primitives (lib.rs).                                *)
(***************************************************************************)
\* Bounds of the record values.
MaxOutcomes == 3
MaxReceipts == 2

CryptoHashes == {"T", "R1", "R2"}
ReceiptIds == {"R1", "R2"}
AccountIds == {"alice", "bob"}

SeqsUpTo(S, n) == UNION {[1..k -> S] : k \in 0..n}

\* views::ExecutionStatusView
Unknown == [tag |-> "Unknown", val |-> ""]
Failure(e) == [tag |-> "Failure", val |-> e]
SuccessValue(v) == [tag |-> "SuccessValue", val |-> v]
SuccessReceiptId(id) == [tag |-> "SuccessReceiptId", val |-> id]
ExecutionStatusView ==
    {Unknown, Failure("e1"), SuccessValue("v1")}
        \cup {SuccessReceiptId(id) : id \in ReceiptIds}

\* views::FinalExecutionStatus
NotStarted == [tag |-> "NotStarted", val |-> ""]
Started == [tag |-> "Started", val |-> ""]

\* Option and Result values, and a panic of the called method.
None == [some |-> FALSE]
Some(x) == [some |-> TRUE, val |-> x]
Ok(x) == [ok |-> TRUE, val |-> x]
Err(msg) == [ok |-> FALSE, err |-> msg]
Panic == [panic |-> TRUE]
NoRet == [none |-> TRUE]
\* No call with arguments has been made; no call is in progress.
NoArgs == <<>>
NoLocals == [none |-> TRUE]

\* views::ExecutionOutcomeWithIdView: the fields the indexer reads.
ExecutionOutcomeWithIdView(id, status, receipt_ids) ==
    [id |-> id, outcome |-> [status |-> status, receipt_ids |-> receipt_ids]]

\* views::ReceiptView
ReceiptView(receipt_id) == [receipt_id |-> receipt_id]

\* views::SignedTransactionView
SignedTransactionView(hash, signer_id, receiver_id) ==
    [hash |-> hash, signer_id |-> signer_id, receiver_id |-> receiver_id]

\* A split one element too early.
split_off_early(v, at) == SubSeq(v, at, Len(v))
\* Vec::split_off(at): the elements from index at on (0-based), and the
\* elements the vector keeps; it panics when at > len.
split_off(v, at) == SubSeq(v, at + 1, Len(v))
split_off_rest(v, at) == SubSeq(v, 1, at)
\* Vec::pop().unwrap() on a non-empty vector
pop(v) == v[Len(v)]

\* IndexerTransactionWithOutcome: the transaction view and its own outcome.
IndexerTransactionWithOutcome(transaction, execution_outcome) ==
    [transaction |-> transaction, outcome |-> [execution_outcome |-> execution_outcome]]

\* TransactionKey::new
TransactionKey(transaction_hash, block_height) ==
    [transaction_hash |-> transaction_hash, block_height |-> block_height]

\* CollectingTransactionDetails::from_indexer_tx
from_indexer_tx(transaction, block_height) ==
    [transaction |-> transaction.transaction,
     receipts |-> <<>>,
     execution_outcomes |-> <<transaction.outcome.execution_outcome>>,
     block_height |-> block_height]

\* The key made of the hash alone.
transaction_key_hash_only(self) == TransactionKey(self.transaction.hash, 0)
\* CollectingTransactionDetails::transaction_key
transaction_key(self) == TransactionKey(self.transaction.hash, self.block_height)

\* The Unknown arm without its guard on the number of outcomes.
unknown_arm_unguarded(num_outcomes) == Some(NotStarted)
\* The arm of final_status for an outcome whose status is Unknown.
unknown_arm(num_outcomes) ==
    IF num_outcomes = 1 THEN Some(NotStarted) ELSE Some(Started)

\* The find_map of final_status from position i on, looking_for_id being
\* the captured variable the closure updates: the status found, and the
\* position of the outcome that gave it (0 when the list is exhausted).
RECURSIVE find_map(_, _, _)
find_map(execution_outcomes, i, looking_for_id) ==
    IF i > Len(execution_outcomes) THEN [status |-> None, at |-> 0]
    ELSE LET outcome_with_id == execution_outcomes[i]
             status == outcome_with_id.outcome.status
         IN  IF outcome_with_id.id = looking_for_id
             THEN CASE status.tag = "Unknown" ->
                           [status |-> unknown_arm(Len(execution_outcomes)), at |-> i]
                    [] status.tag = "Failure" ->
                           [status |-> Some(Failure(status.val)), at |-> i]
                    [] status.tag = "SuccessValue" ->
                           [status |-> Some(SuccessValue(status.val)), at |-> i]
                    [] status.tag = "SuccessReceiptId" ->
                           find_map(execution_outcomes, i + 1, status.val)
             ELSE find_map(execution_outcomes, i + 1, looking_for_id)

\* The closure of final_status applied to one outcome: what it returns to
\* find_map and the value it leaves in the captured looking_for_id.
final_status_closure(outcome_with_id, looking_for_id, num_outcomes) ==
    IF outcome_with_id.id = looking_for_id
    THEN CASE outcome_with_id.outcome.status.tag = "Unknown" ->
                  [ret |-> unknown_arm(num_outcomes), looking_for_id |-> looking_for_id]
           [] outcome_with_id.outcome.status.tag = "Failure" ->
                  [ret |-> Some(Failure(outcome_with_id.outcome.status.val)),
                   looking_for_id |-> looking_for_id]
           [] outcome_with_id.outcome.status.tag = "SuccessValue" ->
                  [ret |-> Some(SuccessValue(outcome_with_id.outcome.status.val)),
                   looking_for_id |-> looking_for_id]
           [] outcome_with_id.outcome.status.tag = "SuccessReceiptId" ->
                  [ret |-> None, looking_for_id |-> outcome_with_id.outcome.status.val]
    ELSE [ret |-> None, looking_for_id |-> looking_for_id]

final_status_walk(self) == find_map(self.execution_outcomes, 1, self.transaction.hash)

\* CollectingTransactionDetails::final_status
final_status(self) == final_status_walk(self).status

\* The record both conversions build from the cloned outcome list.
frozen_record(self, status) ==
    LET outcomes == self.execution_outcomes
        receipts_outcome == split_off(outcomes, 1)
        transaction_outcome == pop(split_off_rest(outcomes, 1))
    IN  [receipts |-> self.receipts,
         receipts_outcome |-> receipts_outcome,
         status |-> status,
         transaction |-> self.transaction,
         transaction_outcome |-> transaction_outcome]

\* CollectingTransactionDetails::to_final_transaction_result
to_final_transaction_result(self) ==
    IF final_status(self).some
    THEN Ok(frozen_record(self, final_status(self).val))
    ELSE Err("Results should resolve to a final outcome")

\* The conversion with Started as the status of an unresolved entry.
from_collecting_unwrap_or_started(tx) ==
    IF 1 > Len(tx.execution_outcomes)
    THEN Panic
    ELSE Ok(frozen_record(tx, IF final_status(tx).some THEN final_status(tx).val
                                                       ELSE Started))
\* impl From<CollectingTransactionDetails> for TransactionDetails
from_collecting(tx) ==
    IF 1 > Len(tx.execution_outcomes)
    THEN Panic
    ELSE Ok(frozen_record(tx, IF final_status(tx).some THEN final_status(tx).val
                                                       ELSE NotStarted))

\* TransactionDetails::to_final_execution_outcome
to_final_execution_outcome(self) ==
    [status |-> self.status,
     transaction |-> self.transaction,
     transaction_outcome |-> self.transaction_outcome,
     receipts_outcome |-> self.receipts_outcome]

\* The closure comparing with the last spawned receipt id instead of the first.
keep_receipt_last(self, receipt) ==
    IF self.transaction.signer_id = self.transaction.receiver_id
    THEN receipt.receipt_id #
            self.transaction_outcome.outcome.receipt_ids[
                Len(self.transaction_outcome.outcome.receipt_ids)]
    ELSE TRUE
\* The filter closure of to_final_execution_outcome_with_receipts: whether
\* the receipt is kept; it is only evaluated when receipt_ids.first() is Some
\* or the signer differs from the receiver.
keep_receipt(self, receipt) ==
    IF self.transaction.signer_id = self.transaction.receiver_id
    THEN receipt.receipt_id # Head(self.transaction_outcome.outcome.receipt_ids)
    ELSE TRUE

\* The first receipt id taken before the filter runs: the expect fails also
\* when there is no receipt to filter.
to_final_execution_outcome_with_receipts_first_ahead(self) ==
    IF /\ self.transaction.signer_id = self.transaction.receiver_id
       /\ self.transaction_outcome.outcome.receipt_ids = <<>>
    THEN Panic
    ELSE LET keep(receipt) == keep_receipt(self, receipt)
         IN  Ok([final_outcome |-> to_final_execution_outcome(self),
                 receipts |-> SelectSeq(self.receipts, keep)])
\* TransactionDetails::to_final_execution_outcome_with_receipts
to_final_execution_outcome_with_receipts(self) ==
    IF /\ self.receipts # <<>>
       /\ self.transaction.signer_id = self.transaction.receiver_id
       /\ self.transaction_outcome.outcome.receipt_ids = <<>>
    THEN Panic  \* .first().expect(..) in the closure
    ELSE LET keep(receipt) == keep_receipt(self, receipt)
         IN  Ok([final_outcome |-> to_final_execution_outcome(self),
                 receipts |-> SelectSeq(self.receipts, keep)])

\* The receipt ids an execution with this status spawned.
spawned(status) == IF status.tag = "SuccessReceiptId" THEN <<status.val>> ELSE <<>>

Outcomes ==
    {ExecutionOutcomeWithIdView(id, status, spawned(status)) :
        id \in CryptoHashes, status \in ExecutionStatusView}

ReceiptLists ==
    {<<>>, <<ReceiptView("R1")>>, <<ReceiptView("R1"), ReceiptView("R2")>>,
     <<ReceiptView("R2"), ReceiptView("R1")>>}

\* The CollectingTransactionDetails values of the model.
Entries ==
    [transaction : {SignedTransactionView("T", "alice", "bob")},
     receipts : ReceiptLists,
     execution_outcomes : SeqsUpTo(Outcomes, MaxOutcomes),
     block_height : {1}]

\* The TransactionDetails values of the model.
DetailsSet ==
    [receipts : SeqsUpTo({ReceiptView(r) : r \in ReceiptIds}, MaxReceipts),
     receipts_outcome : {<<>>, <<ExecutionOutcomeWithIdView("R1", SuccessValue("v1"), <<>>)>>},
     status : {SuccessValue("v1")},
     transaction : {SignedTransactionView("T", s, r) : s, r \in AccountIds},
     transaction_outcome :
        {ExecutionOutcomeWithIdView("T", SuccessReceiptId("R1"), ids) :
            ids \in SeqsUpTo(ReceiptIds, 2)}]

NoEntry ==
    [transaction |-> SignedTransactionView("T", "alice", "bob"), receipts |-> <<>>,
     execution_outcomes |-> <<>>, block_height |-> 0]
NoDetails ==
    [receipts |-> <<>>, receipts_outcome |-> <<>>, status |-> NotStarted,
     transaction |-> SignedTransactionView("T", "alice", "bob"),
     transaction_outcome |-> ExecutionOutcomeWithIdView("T", Unknown, <<>>)]

(***************************************************************************)
(* The record codec (lib.rs): borsh of the current TransactionDetails and  *)
(* the decoders of its historical versions.                                *)
(*                                                                         *)
(* A byte string is a sequence of numbers. One number stands for each      *)
(* fixed-width item borsh writes: the u32 length of a Vec, the u8 tag of   *)
(* an enum variant, and each identifier (hash, account id, payload).       *)
(***************************************************************************)
\* views::FinalExecutionStatus
FinalExecutionStatus == {NotStarted, Started, Failure("e1"), SuccessValue("v1")}

\* The bytes of an identifier.
id_byte(x) ==
    CASE x = "T" -> 1 [] x = "R1" -> 2 [] x = "R2" -> 3
      [] x = "alice" -> 1 [] x = "bob" -> 2
      [] x = "e1" -> 1 [] x = "v1" -> 1

\* ---- BorshSerialize (derived): fields in declaration order ----
RECURSIVE ser_receipts(_)
ser_receipts(v) ==
    IF v = <<>> THEN <<>> ELSE <<id_byte(Head(v).receipt_id)>> \o ser_receipts(Tail(v))

RECURSIVE ser_ids(_)
ser_ids(v) == IF v = <<>> THEN <<>> ELSE <<id_byte(Head(v))>> \o ser_ids(Tail(v))

\* enum ExecutionStatusView { Unknown, Failure, SuccessValue, SuccessReceiptId }
ser_ExecutionStatusView(s) ==
    CASE s.tag = "Unknown" -> <<0>>
      [] s.tag = "Failure" -> <<1, id_byte(s.val)>>
      [] s.tag = "SuccessValue" -> <<2, id_byte(s.val)>>
      [] s.tag = "SuccessReceiptId" -> <<3, id_byte(s.val)>>

\* enum FinalExecutionStatus { NotStarted, Started, Failure, SuccessValue }
ser_FinalExecutionStatus(s) ==
    CASE s.tag = "NotStarted" -> <<0>>
      [] s.tag = "Started" -> <<1>>
      [] s.tag = "Failure" -> <<2, id_byte(s.val)>>
      [] s.tag = "SuccessValue" -> <<3, id_byte(s.val)>>

\* ExecutionOutcomeWithIdView { id, outcome: { receipt_ids, status } }
ser_ExecutionOutcomeWithIdView(o) ==
    <<id_byte(o.id)>> \o <<Len(o.outcome.receipt_ids)>> \o ser_ids(o.outcome.receipt_ids)
        \o ser_ExecutionStatusView(o.outcome.status)

RECURSIVE ser_outcomes(_)
ser_outcomes(v) ==
    IF v = <<>> THEN <<>>
    ELSE ser_ExecutionOutcomeWithIdView(Head(v)) \o ser_outcomes(Tail(v))

\* SignedTransactionView { signer_id, receiver_id, hash }
ser_SignedTransactionView(t) ==
    <<id_byte(t.signer_id), id_byte(t.receiver_id), id_byte(t.hash)>>

\* The serializer writing the status after the transaction.
try_to_vec_status_late(self) ==
    <<Len(self.receipts)>> \o ser_receipts(self.receipts)
        \o <<Len(self.receipts_outcome)>> \o ser_outcomes(self.receipts_outcome)
        \o ser_SignedTransactionView(self.transaction)
        \o ser_FinalExecutionStatus(self.status)
        \o ser_ExecutionOutcomeWithIdView(self.transaction_outcome)
\* TransactionDetails::try_to_vec (derive(BorshSerialize)), as add_transaction
\* calls it.
try_to_vec(self) ==
    <<Len(self.receipts)>> \o ser_receipts(self.receipts)
        \o <<Len(self.receipts_outcome)>> \o ser_outcomes(self.receipts_outcome)
        \o ser_FinalExecutionStatus(self.status)
        \o ser_SignedTransactionView(self.transaction)
        \o ser_ExecutionOutcomeWithIdView(self.transaction_outcome)

\* ---- BorshDeserialize (derived) ----
\* The result of reading one item: the value and the bytes left, or a failure.
Parsed(val, rest) == [ok |-> TRUE, val |-> val, rest |-> rest]
Failed == [ok |-> FALSE]

de_number(bytes) == IF bytes = <<>> THEN Failed ELSE Parsed(Head(bytes), Tail(bytes))

\* An identifier of the set ids.
de_id(ids, bytes) ==
    IF bytes = <<>> THEN Failed
    ELSE IF \E x \in ids : id_byte(x) = Head(bytes)
         THEN Parsed(CHOOSE x \in ids : id_byte(x) = Head(bytes), Tail(bytes))
         ELSE Failed

ErrorIds == {"e1"}
ValueIds == {"v1"}

\* The element of a one-element set. A field is read once and its result
\* named by binding it as the element of a one-element set: the ? of a
\* derived deserialize_reader returns the error of a field, and the fields
\* after it read on from where it ended.
The(S) == CHOOSE r \in S : TRUE

RECURSIVE de_n_receipts(_, _, _)
de_n_receipts(n, bytes, acc) ==
    IF n = 0 THEN Parsed(acc, bytes)
    ELSE The({IF ~e.ok THEN Failed
              ELSE de_n_receipts(n - 1, e.rest, Append(acc, ReceiptView(e.val))) :
                e \in {de_id(CryptoHashes, bytes)}})

de_receipts(bytes) ==
    The({IF ~n.ok THEN Failed ELSE de_n_receipts(n.val, n.rest, <<>>) :
            n \in {de_number(bytes)}})

RECURSIVE de_n_ids(_, _, _)
de_n_ids(n, bytes, acc) ==
    IF n = 0 THEN Parsed(acc, bytes)
    ELSE The({IF ~e.ok THEN Failed
              ELSE de_n_ids(n - 1, e.rest, Append(acc, e.val)) :
                e \in {de_id(CryptoHashes, bytes)}})

de_ids(bytes) ==
    The({IF ~n.ok THEN Failed ELSE de_n_ids(n.val, n.rest, <<>>) :
            n \in {de_number(bytes)}})

\* An enum payload: the identifier wrapped by the variant.
de_payload(ids, tag, bytes) ==
    The({IF ~p.ok THEN Failed ELSE Parsed([tag |-> tag, val |-> p.val], p.rest) :
            p \in {de_id(ids, bytes)}})

de_ExecutionStatusView(bytes) ==
    The({IF ~t.ok THEN Failed
         ELSE CASE t.val = 0 -> Parsed(Unknown, t.rest)
                [] t.val = 1 -> de_payload(ErrorIds, "Failure", t.rest)
                [] t.val = 2 -> de_payload(ValueIds, "SuccessValue", t.rest)
                [] t.val = 3 -> de_payload(CryptoHashes, "SuccessReceiptId", t.rest)
                [] OTHER -> Failed :
            t \in {de_number(bytes)}})

de_FinalExecutionStatus(bytes) ==
    The({IF ~t.ok THEN Failed
         ELSE CASE t.val = 0 -> Parsed(NotStarted, t.rest)
                [] t.val = 1 -> Parsed(Started, t.rest)
                [] t.val = 2 -> de_payload(ErrorIds, "Failure", t.rest)
                [] t.val = 3 -> de_payload(ValueIds, "SuccessValue", t.rest)
                [] OTHER -> Failed :
            t \in {de_number(bytes)}})

de_ExecutionOutcomeWithIdView(bytes) ==
    The({IF ~id.ok THEN Failed ELSE
    The({IF ~receipt_ids.ok THEN Failed ELSE
    The({IF ~status.ok THEN Failed ELSE
            Parsed(ExecutionOutcomeWithIdView(id.val, status.val, receipt_ids.val),
                   status.rest) :
        status \in {de_ExecutionStatusView(receipt_ids.rest)}}) :
        receipt_ids \in {de_ids(id.rest)}}) :
        id \in {de_id(CryptoHashes, bytes)}})

RECURSIVE de_n_outcomes(_, _, _)
de_n_outcomes(n, bytes, acc) ==
    IF n = 0 THEN Parsed(acc, bytes)
    ELSE The({IF ~e.ok THEN Failed
              ELSE de_n_outcomes(n - 1, e.rest, Append(acc, e.val)) :
                e \in {de_ExecutionOutcomeWithIdView(bytes)}})

de_outcomes(bytes) ==
    The({IF ~n.ok THEN Failed ELSE de_n_outcomes(n.val, n.rest, <<>>) :
            n \in {de_number(bytes)}})

de_SignedTransactionView(bytes) ==
    The({IF ~signer_id.ok THEN Failed ELSE
    The({IF ~receiver_id.ok THEN Failed ELSE
    The({IF ~hash.ok THEN Failed ELSE
            Parsed(SignedTransactionView(hash.val, signer_id.val, receiver_id.val),
                   hash.rest) :
        hash \in {de_id(CryptoHashes, receiver_id.rest)}}) :
        receiver_id \in {de_id(AccountIds, signer_id.rest)}}) :
        signer_id \in {de_id(AccountIds, bytes)}})

\* TransactionDetails::deserialize_reader (derive(BorshDeserialize))
de_TransactionDetails(bytes) ==
    The({IF ~receipts.ok THEN Failed ELSE
    The({IF ~receipts_outcome.ok THEN Failed ELSE
    The({IF ~status.ok THEN Failed ELSE
    The({IF ~transaction.ok THEN Failed ELSE
    The({IF ~transaction_outcome.ok THEN Failed ELSE
            Parsed([receipts |-> receipts.val,
                    receipts_outcome |-> receipts_outcome.val,
                    status |-> status.val,
                    transaction |-> transaction.val,
                    transaction_outcome |-> transaction_outcome.val],
                   transaction_outcome.rest) :
        transaction_outcome \in {de_ExecutionOutcomeWithIdView(transaction.rest)}}) :
        transaction \in {de_SignedTransactionView(status.rest)}}) :
        status \in {de_FinalExecutionStatus(receipts_outcome.rest)}}) :
        receipts_outcome \in {de_outcomes(receipts.rest)}}) :
        receipts \in {de_receipts(bytes)}})

\* borsh::from_slice::<TransactionDetails>: every byte must be read.
from_slice(data) ==
    LET p == de_TransactionDetails(data)
    IN  IF p.ok
        THEN IF p.rest = <<>> THEN Ok(p.val) ELSE Err("Not all bytes read")
        ELSE Err("Unexpected bytes")

\* ---- the historical versions ----
\* TransactionDetailsV0201 .. TransactionDetailsV0230, oldest first.
Versions == <<"V0201", "V0212", "V0220", "V0230">>
VersionSet == {Versions[k] : k \in 1..Len(Versions)}

\* The value a historical decoder reads from a byte string is not determined
\* by the structs of lib.rs (their fields are the views of older
\* near-indexer-primitives releases): historical[v] is what
\* borsh::from_slice::<TransactionDetailsV..>(data) returns for the byte
\* string at hand, either an error or a record of version v. The record
\* holds its fields and whether its JSON form has the current shape.
HistoricalFields(version) ==
    [receipts |-> <<>>, receipts_outcome |-> <<>>,
     status |-> CASE version = "V0201" -> NotStarted
                  [] version = "V0212" -> Started
                  [] version = "V0220" -> Failure("e1")
                  [] version = "V0230" -> SuccessValue("v1"),
     transaction |-> SignedTransactionView("T", "alice", "bob"),
     transaction_outcome |-> ExecutionOutcomeWithIdView("T", Unknown, <<>>)]

HistoricalDecode(choice) ==
    [v \in VersionSet |->
        CASE choice[v] = "err" -> Err("Unexpected bytes")
          [] choice[v] = "current_shape" ->
                Ok([fields |-> HistoricalFields(v), json_current |-> TRUE])
          [] choice[v] = "old_shape" ->
                Ok([fields |-> HistoricalFields(v), json_current |-> FALSE])]

HistoricalDecodes ==
    {HistoricalDecode(choice) :
        choice \in [VersionSet -> {"err", "current_shape", "old_shape"}]}

NoHistorical == [v \in VersionSet |-> Err("Unexpected bytes")]

\* borsh::from_slice::<TransactionDetailsV..>(data)
from_slice_version(version, historical) == historical[version]

\* The historical decoders tried newest first.
old_version_borsh_deserialize_newest_first(historical) ==
    IF from_slice_version("V0230", historical).ok
    THEN [res |-> Ok([variant |-> "V0230",
                      tx_details |-> from_slice_version("V0230", historical).val]),
          tried |-> <<"V0230">>]
    ELSE IF from_slice_version("V0220", historical).ok
    THEN [res |-> Ok([variant |-> "V0220",
                      tx_details |-> from_slice_version("V0220", historical).val]),
          tried |-> <<"V0230", "V0220">>]
    ELSE IF from_slice_version("V0212", historical).ok
    THEN [res |-> Ok([variant |-> "V0212",
                      tx_details |-> from_slice_version("V0212", historical).val]),
          tried |-> <<"V0230", "V0220", "V0212">>]
    ELSE IF from_slice_version("V0201", historical).ok
    THEN [res |-> Ok([variant |-> "V0201",
                      tx_details |-> from_slice_version("V0201", historical).val]),
          tried |-> <<"V0230", "V0220", "V0212", "V0201">>]
    ELSE [res |-> Err("Failed to deserialize TransactionDetails"),
          tried |-> <<"V0230", "V0220", "V0212", "V0201">>]
\* TransactionDetailsOldVersion::borsh_deserialize: the nested matches. res
\* is what it returns, tried the decoders it called, in order.
old_version_borsh_deserialize(historical) ==
    IF from_slice_version("V0201", historical).ok
    THEN [res |-> Ok([variant |-> "V0201",
                      tx_details |-> from_slice_version("V0201", historical).val]),
          tried |-> <<"V0201">>]
    ELSE IF from_slice_version("V0212", historical).ok
    THEN [res |-> Ok([variant |-> "V0212",
                      tx_details |-> from_slice_version("V0212", historical).val]),
          tried |-> <<"V0201", "V0212">>]
    ELSE IF from_slice_version("V0220", historical).ok
    THEN [res |-> Ok([variant |-> "V0220",
                      tx_details |-> from_slice_version("V0220", historical).val]),
          tried |-> <<"V0201", "V0212", "V0220">>]
    ELSE IF from_slice_version("V0230", historical).ok
    THEN [res |-> Ok([variant |-> "V0230",
                      tx_details |-> from_slice_version("V0230", historical).val]),
          tried |-> <<"V0201", "V0212", "V0220", "V0230">>]
    ELSE [res |-> Err("Failed to deserialize TransactionDetails"),
          tried |-> <<"V0201", "V0212", "V0220", "V0230">>]

\* TransactionDetailsOldVersion::to_latest: serde_json::to_value of the
\* variant's record, then serde_json::from_value::<TransactionDetails>.
to_latest(self) ==
    IF self.tx_details.json_current
    THEN Ok(self.tx_details.fields)
    ELSE Err("serde_json")

\* A failed projection of the first accepted variant falls through to the
\* variants after it.
RECURSIVE to_latest_of_first_projectable(_, _)
to_latest_of_first_projectable(historical, k) ==
    IF k > Len(Versions)
    THEN [res |-> Err("serde_json"), tried |-> Versions]
    ELSE IF historical[Versions[k]].ok /\ historical[Versions[k]].val.json_current
         THEN [res |-> Ok(historical[Versions[k]].val.fields),
               tried |-> SubSeq(Versions, 1, k)]
         ELSE to_latest_of_first_projectable(historical, k + 1)
borsh_deserialize_retrying(data, historical) ==
    IF from_slice(data).ok
    THEN [res |-> from_slice(data), tried |-> <<"current">>]
    ELSE LET old == to_latest_of_first_projectable(historical, 1)
         IN  [res |-> old.res, tried |-> <<"current">> \o old.tried]
\* TransactionDetails::borsh_deserialize
borsh_deserialize(data, historical) ==
    IF from_slice(data).ok
    THEN [res |-> from_slice(data), tried |-> <<"current">>]
    ELSE LET old == old_version_borsh_deserialize(historical)
         IN  IF old.res.ok
             THEN [res |-> to_latest(old.res.val), tried |-> <<"current">> \o old.tried]
             ELSE [res |-> old.res, tried |-> <<"current">> \o old.tried]

\* BorshDeserialize::try_from_slice::<TransactionDetails>: deserialize, then
\* an error when bytes are left.
try_from_slice(v) ==
    The({IF ~p.ok THEN Err("Unexpected bytes")
         ELSE IF p.rest = <<>> THEN Ok(p.val) ELSE Err("Not all bytes read") :
            p \in {de_TransactionDetails(v)}})

\* PostgresDBManager::get_transaction_by_hash, from the payload of the row
\* the query returned: Ok(TransactionDetails::try_from_slice(&data)?)
rpc_server_get_transaction_by_hash(transaction_data) ==
    try_from_slice(transaction_data)

\* The TransactionDetails values the codec is applied to.
CodecRecords ==
    [receipts : SeqsUpTo({ReceiptView(r) : r \in ReceiptIds}, MaxReceipts),
     receipts_outcome : {<<>>, <<ExecutionOutcomeWithIdView("R1", SuccessValue("v1"), <<>>)>>},
     status : FinalExecutionStatus,
     transaction : {SignedTransactionView("T", "alice", "bob")},
     transaction_outcome :
        {ExecutionOutcomeWithIdView("T", s, spawned(s)) : s \in ExecutionStatusView}]

\* Byte strings a stored blob can hold besides the bytes add_transaction
\* wrote: a truncated blob, a blob with a byte appended, and a blob whose
\* first length is one more.
Damaged(bytes) ==
    {SubSeq(bytes, 1, Len(bytes) - 1), bytes \o <<0>>, [bytes EXCEPT ![1] = @ + 1]}

(***************************************************************************)
(* Storage statements (config.rs).                                         *)
(***************************************************************************)
\* One cursor row shared by every indexer: the insert replaces the table.
update_meta_shared_row(table, id, block_height) == {<<id, block_height>>}
\* INSERT INTO tx_indexer.meta (indexer_id, last_processed_block_height):
\* indexer_id is the primary key, so the insert replaces the id's row.
update_meta(table, id, block_height) ==
    {r \in table : r[1] # id} \cup {<<id, block_height>>}

\* The insert keyed by the transaction hash alone.
add_transaction_keyed_by_hash(table, transaction, block_height) ==
    {r \in table : r[1] # transaction.transaction.hash}
        \cup {<<transaction.transaction.hash, block_height,
                transaction.transaction.signer_id, try_to_vec(transaction)>>}
\* ScyllaDBManager::add_transaction: INSERT INTO tx_indexer.transactions_details
\* (transaction_hash, block_height, account_id, transaction_details); the
\* primary key is (transaction_hash, block_height), so the insert replaces
\* the row of that pair.
add_transaction(table, transaction, block_height) ==
    {r \in table : ~(r[1] = transaction.transaction.hash /\ r[2] = block_height)}
        \cup {<<transaction.transaction.hash, block_height,
                transaction.transaction.signer_id, try_to_vec(transaction)>>}

\* ScyllaDBManager::add_receipt: INSERT INTO tx_indexer.receipts_map
\* (receipt_id, block_height, parent_transaction_hash, shard_id); the primary
\* key is receipt_id.
add_receipt(table, receipt_id, parent_tx_hash, block_height, shard_id) ==
    {r \in table : r[1] # receipt_id}
        \cup {<<receipt_id, block_height, parent_tx_hash, shard_id>>}

\* The rows of a partition in clustering order: block_height DESC.
RECURSIVE clustering_order(_)
clustering_order(rows) ==
    IF rows = {} THEN <<>>
    ELSE LET top == CHOOSE r \in rows : \A q \in rows : q[2] <= r[2]
         IN  <<top>> \o clustering_order(rows \ {top})

\* The reader's lookup by hash alone: the first row of the hash's partition.
get_transaction_by_hash(table, transaction_hash) ==
    LET partition == clustering_order({r \in table : r[1] = transaction_hash})
    IN  IF partition = <<>> THEN Err("not found") ELSE Ok(partition[1][4])

\* SELECT last_processed_block_height FROM tx_indexer.meta WHERE indexer_id = ?
meta_rows(table, id) == {r \in table : r[1] = id}

StartOptions ==
    [kind : {"FromBlock"}, height : Heights]
        \cup {[kind |-> "FromInterruption", height |-> 0],
              [kind |-> "FromLatest", height |-> 0]}

\* The chain's final block height, as the RPC node reports it.
final_block_height == chain_final

\* from-latest resuming at the stored cursor when there is one.
get_start_block_height_latest_resumes(start_options, table, id) ==
    CASE start_options.kind = "FromBlock" -> start_options.height
      [] OTHER ->
            IF Cardinality(meta_rows(table, id)) = 1
            THEN (CHOOSE r \in meta_rows(table, id) : TRUE)[2]
            ELSE final_block_height
\* from-interruption resuming at the block after the stored cursor.
get_start_block_height_after_cursor(start_options, table, id) ==
    CASE start_options.kind = "FromBlock" -> start_options.height
      [] start_options.kind = "FromInterruption" ->
            IF Cardinality(meta_rows(table, id)) = 1
            THEN (CHOOSE r \in meta_rows(table, id) : TRUE)[2] + 1
            ELSE final_block_height
      [] start_options.kind = "FromLatest" -> final_block_height
get_start_block_height(start_options, table, id) ==
    CASE start_options.kind = "FromBlock" -> start_options.height
      [] start_options.kind = "FromInterruption" ->
            IF Cardinality(meta_rows(table, id)) = 1
            THEN (CHOOSE r \in meta_rows(table, id) : TRUE)[2]
            ELSE final_block_height
      [] start_options.kind = "FromLatest" -> final_block_height

(***************************************************************************)
(* The block stream and the collector.                                     *)
(***************************************************************************)
\* The records of the transactions that become final while block h is
\* handled (the content of the chain is fixed): in every block a transaction
\* with hash T, in the odd blocks one with a receipt R1.
BlockTxs(h) ==
    IF h % 2 = 0
    THEN <<[receipts |-> <<>>, receipts_outcome |-> <<>>, status |-> SuccessValue("v1"),
            transaction |-> SignedTransactionView("T", "alice", "bob"),
            transaction_outcome |->
                ExecutionOutcomeWithIdView("T", SuccessValue("v1"), <<>>)]>>
    ELSE <<[receipts |-> <<ReceiptView("R1")>>,
            receipts_outcome |->
                <<ExecutionOutcomeWithIdView("R1", SuccessValue("v1"), <<>>)>>,
            status |-> SuccessValue("v1"),
            transaction |-> SignedTransactionView("T", "alice", "bob"),
            transaction_outcome |->
                ExecutionOutcomeWithIdView("T", SuccessReceiptId("R1"), <<"R1">>)]>>

\* The storage calls that persist a final record: the TransactionDetails,
\* then a ReceiptRecord for each of its receipts.
TxWrites(transaction, h) ==
    <<[op |-> "add_transaction", transaction |-> transaction, block_height |-> h]>>
        \o [k \in 1..Len(transaction.receipts) |->
                [op |-> "add_receipt",
                 receipt_id |-> transaction.receipts[k].receipt_id,
                 parent_tx_hash |-> transaction.transaction.hash,
                 block_height |-> h, shard_id |-> 0]]

\* The storage calls of index_transactions for block h, in order.
RECURSIVE BlockWrites(_, _)
BlockWrites(txs, h) ==
    IF txs = <<>> THEN <<>> ELSE TxWrites(Head(txs), h) \o BlockWrites(Tail(txs), h)

\* A handle_streamer_message future: its block height, the await it is at, the
\* result of index_transactions, the storage calls index_transactions has yet
\* to make, and the storage calls and returns of this handling so far, in order.
NewHandler(h) ==
    [height |-> h, pc |-> "index_transactions", tx |-> "pending",
     todo |-> BlockWrites(BlockTxs(h), h), effects |-> <<>>]

\* What main has returned.
NotReturned == [returned |-> FALSE]
Returned(sender, result) == [returned |-> TRUE, sender |-> sender, result |-> result]

\* The results of sender.await, the JoinHandle of the stream's sender.
SenderResults == {"Ok(Ok(()))", "Ok(Err(e))", "Err(JoinError)"}

\* main: match sender.await
match_sender(sender) == IF sender = "Ok(Ok(()))" THEN "Ok(())" ELSE "Err(e)"

Remove(seq, i) == SubSeq(seq, 1, i - 1) \o SubSeq(seq, i + 1, Len(seq))

\* i64::try_from(u64)
i64_try_from_ok(h) == h <= I64_MAX

(***************************************************************************)
(* Initial state: empty tables, no process.                                *)
(***************************************************************************)
DriverInit ==
    /\ meta = {}
    /\ transactions_details = {}
    /\ receipts_map = {}
    /\ chain_final = 0
    /\ proc = "stopped"
    /\ runs = 0
    /\ indexer_id = "a"
    /\ chain_id = [kind |-> "FromLatest", height |-> 0]
    /\ main_return = NotReturned
    /\ store_log = <<>>
    /\ stream_next = 0
    /\ stream_open = FALSE
    /\ handlers = <<>>
    /\ delivered = <<>>
    /\ handled = <<>>
    /\ BLOCK_PROCESSED_TOTAL = 0
    /\ LATEST_BLOCK_HEIGHT = 0

RecordsIdle ==
    /\ entry = NoEntry
    /\ details = NoDetails
    /\ call = "none"
    /\ ret = NoRet
    /\ args = NoArgs
    /\ locals = NoLocals

CodecIdle ==
    /\ blob = <<>>
    /\ old_decoders = NoHistorical
    /\ consulted = <<>>

Init == DriverInit /\ RecordsIdle /\ CodecIdle

(***************************************************************************)
(* Actions of the driver.                                                  *)
(***************************************************************************)
\* The chain finalizes one more block.
ChainAdvance ==
    /\ chain_final < MaxHeight
    /\ chain_final' = chain_final + 1
    /\ UNCHANGED <<record_vars, codec_vars, store_log>>
    /\ UNCHANGED <<meta, transactions_details, receipts_map, proc, runs, indexer_id,
                   chain_id, stream_next, stream_open, handlers, delivered, handled,
                   main_return, BLOCK_PROCESSED_TOTAL, LATEST_BLOCK_HEIGHT>>

\* main, up to the creation of the stream: to_lake_config resolves the start
\* height and the streamer is instantiated.
Start(id, start_options) ==
    /\ proc = "stopped"
    /\ runs < MaxRuns
    /\ runs' = runs + 1
    /\ proc' = "running"
    /\ indexer_id' = id
    /\ chain_id' = start_options
    /\ stream_next' = get_start_block_height(start_options, meta, id)
    /\ stream_open' = TRUE
    /\ handlers' = <<>>
    /\ delivered' = <<>>
    /\ handled' = <<>>
    /\ main_return' = NotReturned
    /\ BLOCK_PROCESSED_TOTAL' = 0
    /\ LATEST_BLOCK_HEIGHT' = 0
    /\ UNCHANGED <<record_vars, codec_vars, store_log>>
    /\ UNCHANGED <<meta, transactions_details, receipts_map, chain_final>>

\* handlers.next(): buffer_unordered takes the next message from the stream
\* while fewer than its limit of futures are in flight; the mapped closure
\* creates the handle_streamer_message future for it.
Deliver ==
    /\ proc = "running"
    /\ stream_open
    /\ Len(handlers) < buffer_unordered
    /\ stream_next <= chain_final
    /\ handlers' = Append(handlers, NewHandler(stream_next))
    /\ delivered' = Append(delivered, stream_next)
    /\ stream_next' = stream_next + 1
    /\ UNCHANGED <<record_vars, codec_vars, store_log>>
    /\ UNCHANGED <<meta, transactions_details, receipts_map, chain_final, proc, runs,
                   indexer_id, chain_id, stream_open, handled, main_return,
                   BLOCK_PROCESSED_TOTAL, LATEST_BLOCK_HEIGHT>>

\* collector::index_transactions makes its next storage call.
IndexWrite(i) ==
    /\ proc = "running"
    /\ i \in 1..Len(handlers)
    /\ handlers[i].pc = "index_transactions"
    /\ handlers[i].todo # <<>>
    /\ LET w == Head(handlers[i].todo)
       IN  /\ transactions_details' =
                  IF w.op = "add_transaction"
                  THEN add_transaction(transactions_details, w.transaction, w.block_height)
                  ELSE transactions_details
           /\ receipts_map' =
                  IF w.op = "add_receipt"
                  THEN add_receipt(receipts_map, w.receipt_id, w.parent_tx_hash,
                                   w.block_height, w.shard_id)
                  ELSE receipts_map
           /\ handlers' = [handlers EXCEPT ![i].todo = Tail(@),
                                           ![i].effects = Append(@, w.op)]
    /\ UNCHANGED <<record_vars, codec_vars, store_log>>
    /\ UNCHANGED <<meta, chain_final, proc, runs, indexer_id, chain_id, stream_next,
                   stream_open, delivered, handled, main_return,
                   BLOCK_PROCESSED_TOTAL, LATEST_BLOCK_HEIGHT>>

\* collector::index_transactions returns: Ok when every record is stored, Err
\* at any point. handle_streamer_message logs the result and goes on.
IndexReturn(i, res) ==
    /\ proc = "running"
    /\ i \in 1..Len(handlers)
    /\ handlers[i].pc = "index_transactions"
    /\ res = "ok" => handlers[i].todo = <<>>
    /\ handlers' = [handlers EXCEPT ![i].tx = res, ![i].pc = "update_meta",
                                    ![i].effects = Append(@, "index_transactions_returned")]
    /\ UNCHANGED <<record_vars, codec_vars, store_log>>
    /\ UNCHANGED <<meta, transactions_details, receipts_map, chain_final, proc, runs,
                   indexer_id, chain_id, stream_next, stream_open, delivered, handled,
                   main_return, BLOCK_PROCESSED_TOTAL, LATEST_BLOCK_HEIGHT>>

\* update_meta joined with index_transactions instead of following it.
AtUpdateMeta_joined(hd) == hd.pc \in {"index_transactions", "update_meta"}
\* The handler is at the update_meta call of handle_streamer_message.
AtUpdateMeta(hd) == hd.pc = "update_meta"

\* scylla_db_client.update_meta(indexer_id, height) is executed by the store.
UpdateMetaOk(i) ==
    /\ proc = "running"
    /\ i \in 1..Len(handlers)
    /\ AtUpdateMeta(handlers[i])
    /\ meta' = update_meta(meta, indexer_id, handlers[i].height)
    /\ handlers' = [handlers EXCEPT ![i].pc = "metrics",
                                    ![i].effects = Append(@, "update_meta")]
    /\ UNCHANGED <<record_vars, codec_vars, store_log>>
    /\ UNCHANGED <<transactions_details, receipts_map, chain_final, proc, runs, indexer_id,
                   chain_id, stream_next, stream_open, delivered, handled, main_return,
                   BLOCK_PROCESSED_TOTAL, LATEST_BLOCK_HEIGHT>>

\* The handler counts the block although the cursor write failed.
UpdateMetaErr_counted(i) ==
    /\ proc = "running"
    /\ i \in 1..Len(handlers)
    /\ AtUpdateMeta(handlers[i])
    /\ handled' = Append(handled, <<handlers[i].height, "err", handlers[i].effects>>)
    /\ handlers' = Remove(handlers, i)
    /\ BLOCK_PROCESSED_TOTAL' = BLOCK_PROCESSED_TOTAL + 1
    /\ UNCHANGED <<record_vars, codec_vars, store_log>>
    /\ UNCHANGED <<meta, transactions_details, receipts_map, chain_final, proc, runs,
                   indexer_id, chain_id, stream_next, stream_open, delivered,
                   main_return, LATEST_BLOCK_HEIGHT>>
\* The driver loop returns the handler's error from main.
UpdateMetaErr_abort(i) ==
    /\ proc = "running"
    /\ i \in 1..Len(handlers)
    /\ AtUpdateMeta(handlers[i])
    /\ handled' = Append(handled, <<handlers[i].height, "err", handlers[i].effects>>)
    /\ handlers' = <<>>
    /\ proc' = "stopped"
    /\ main_return' = Returned("none", "Err(e)")
    /\ UNCHANGED <<record_vars, codec_vars, store_log>>
    /\ UNCHANGED <<meta, transactions_details, receipts_map, chain_final, runs,
                   indexer_id, chain_id, stream_next, stream_open, delivered,
                   BLOCK_PROCESSED_TOTAL, LATEST_BLOCK_HEIGHT>>
\* update_meta(...).await? fails: the handler returns the error and the
\* driver loop logs it.
UpdateMetaErr(i) ==
    /\ proc = "running"
    /\ i \in 1..Len(handlers)
    /\ AtUpdateMeta(handlers[i])
    /\ handled' = Append(handled, <<handlers[i].height, "err", handlers[i].effects>>)
    /\ handlers' = Remove(handlers, i)
    /\ UNCHANGED <<record_vars, codec_vars, store_log>>
    /\ UNCHANGED <<meta, transactions_details, receipts_map, chain_final, proc, runs,
                   indexer_id, chain_id, stream_next, stream_open, delivered,
                   main_return, BLOCK_PROCESSED_TOTAL, LATEST_BLOCK_HEIGHT>>

\* The gauge conversion ahead of the counter: a height that does not fit the
\* gauge leaves the block uncounted.
Finish_gauge_first(i) ==
    /\ proc = "running"
    /\ i \in 1..Len(handlers)
    /\ handlers[i].pc = "metrics"
    /\ BLOCK_PROCESSED_TOTAL' =
           IF i64_try_from_ok(handlers[i].height) THEN BLOCK_PROCESSED_TOTAL + 1
           ELSE BLOCK_PROCESSED_TOTAL
    /\ LATEST_BLOCK_HEIGHT' =
           IF i64_try_from_ok(handlers[i].height) THEN handlers[i].height
           ELSE LATEST_BLOCK_HEIGHT
    /\ handled' = Append(handled,
           <<handlers[i].height,
             IF i64_try_from_ok(handlers[i].height) THEN "ok" ELSE "err",
             handlers[i].effects>>)
    /\ handlers' = Remove(handlers, i)
    /\ UNCHANGED <<record_vars, codec_vars, store_log>>
    /\ UNCHANGED <<meta, transactions_details, receipts_map, chain_final, proc, runs,
                   indexer_id, chain_id, stream_next, stream_open, delivered, main_return>>
\* The gauge set with a wrapping cast (height as i64) in place of
\* i64::try_from(height)?: the handler returns Ok for every height.
Finish_gauge_wraps(i) ==
    /\ proc = "running"
    /\ i \in 1..Len(handlers)
    /\ handlers[i].pc = "metrics"
    /\ BLOCK_PROCESSED_TOTAL' = BLOCK_PROCESSED_TOTAL + 1
    /\ LATEST_BLOCK_HEIGHT' = handlers[i].height % (I64_MAX + 1)
    /\ handled' = Append(handled, <<handlers[i].height, "ok", handlers[i].effects>>)
    /\ handlers' = Remove(handlers, i)
    /\ UNCHANGED <<record_vars, codec_vars, store_log>>
    /\ UNCHANGED <<meta, transactions_details, receipts_map, chain_final, proc, runs,
                   indexer_id, chain_id, stream_next, stream_open, delivered, main_return>>
\* The rest of handle_streamer_message after update_meta returned Ok: the
\* counter, the gauge (i64::try_from(height)?), the result; the driver loop
\* takes the result from handlers.next().
Finish(i) ==
    /\ proc = "running"
    /\ i \in 1..Len(handlers)
    /\ handlers[i].pc = "metrics"
    /\ BLOCK_PROCESSED_TOTAL' = BLOCK_PROCESSED_TOTAL + 1
    /\ LATEST_BLOCK_HEIGHT' =
           IF i64_try_from_ok(handlers[i].height) THEN handlers[i].height
           ELSE LATEST_BLOCK_HEIGHT
    /\ handled' = Append(handled,
           <<handlers[i].height,
             IF i64_try_from_ok(handlers[i].height) THEN "ok" ELSE "err",
             handlers[i].effects>>)
    /\ handlers' = Remove(handlers, i)
    /\ UNCHANGED <<record_vars, codec_vars, store_log>>
    /\ UNCHANGED <<meta, transactions_details, receipts_map, chain_final, proc, runs,
                   indexer_id, chain_id, stream_next, stream_open, delivered, main_return>>

\* The block stream ends (the sender finished and its channel is closed).
StreamEnd ==
    /\ proc = "running"
    /\ stream_open
    /\ stream_open' = FALSE
    /\ UNCHANGED <<record_vars, codec_vars, store_log>>
    /\ UNCHANGED <<meta, transactions_details, receipts_map, chain_final, proc, runs,
                   indexer_id, chain_id, stream_next, handlers, delivered, handled,
                   main_return, BLOCK_PROCESSED_TOTAL, LATEST_BLOCK_HEIGHT>>

\* The process is gone: nothing of its memory is left (its options, the
\* stream, the futures, the metrics); the tables stay.
ProcessGone ==
    /\ proc' = "stopped"
    /\ indexer_id' = "a"
    /\ chain_id' = [kind |-> "FromLatest", height |-> 0]
    /\ stream_next' = 0
    /\ stream_open' = FALSE
    /\ handlers' = <<>>
    /\ delivered' = <<>>
    /\ handled' = <<>>
    /\ BLOCK_PROCESSED_TOTAL' = 0
    /\ LATEST_BLOCK_HEIGHT' = 0
    /\ UNCHANGED <<meta, transactions_details, receipts_map, chain_final, runs>>

\* The while loop of main ends when the stream has ended and no handler is
\* in flight; main matches on sender.await and returns.
MainReturn(sender) ==
    /\ proc = "running"
    /\ ~stream_open
    /\ handlers = <<>>
    /\ main_return' = Returned(sender, match_sender(sender))
    /\ ProcessGone
    /\ UNCHANGED <<record_vars, codec_vars, store_log>>

\* The process is killed at any point.
Crash ==
    /\ proc = "running"
    /\ main_return' = main_return
    /\ ProcessGone
    /\ UNCHANGED <<record_vars, codec_vars, store_log>>

Next ==
    \/ ChainAdvance
    \/ \E id \in IndexerIds, so \in StartOptions : Start(id, so)
    \/ Deliver
    \/ \E i \in 1..buffer_unordered + 1 : IndexWrite(i)
    \/ \E i \in 1..buffer_unordered + 1, res \in {"ok", "err"} : IndexReturn(i, res)
    \/ \E i \in 1..buffer_unordered + 1 : UpdateMetaOk(i)
    \/ \E i \in 1..buffer_unordered + 1 : UpdateMetaErr(i)
    \/ \E i \in 1..buffer_unordered + 1 : Finish(i)
    \/ StreamEnd
    \/ \E sender \in SenderResults : MainReturn(sender)
    \/ Crash

Spec == Init /\ [][Next]_vars

(***************************************************************************)
(* Calls on a CollectingTransactionDetails.                                *)
(***************************************************************************)
InitEntry ==
    /\ DriverInit
    /\ CodecIdle
    /\ entry \in Entries
    /\ details = NoDetails
    /\ call = "none"
    /\ ret = NoRet
    /\ args = NoArgs
    /\ locals = NoLocals

\* entry.final_status()
CallFinalStatus ==
    /\ call' = "final_status"
    /\ ret' = final_status(entry)
    /\ UNCHANGED <<entry, details, args, locals, codec_vars>>
    /\ UNCHANGED driver_vars

\* entry.to_final_transaction_result(): &self, the entry is left as it is.
CallToFinalTransactionResult ==
    /\ call' = "to_final_transaction_result"
    /\ ret' = to_final_transaction_result(entry)
    /\ UNCHANGED <<entry, details, args, locals, codec_vars>>
    /\ UNCHANGED driver_vars

\* TransactionDetails::from(entry.clone())
CallFrom ==
    /\ call' = "from"
    /\ ret' = from_collecting(entry)
    /\ UNCHANGED <<entry, details, args, locals, codec_vars>>
    /\ UNCHANGED driver_vars

NextEntry ==
    \/ CallFinalStatus
    \/ CallToFinalTransactionResult
    \/ CallFrom

SpecEntry == InitEntry /\ [][NextEntry]_vars

(***************************************************************************)
(* A new entry of the transaction cache: built from an indexed             *)
(* transaction, then receipts and outcomes are attached to it.             *)
(***************************************************************************)
\* The indexed transactions of the model: the outcome of a well-formed one
\* has the transaction's hash as its id.
IndexerTxs ==
    {IndexerTransactionWithOutcome(
         SignedTransactionView(hash, "alice", "bob"),
         ExecutionOutcomeWithIdView(id, status, spawned(status))) :
        hash \in {"T", "R1"}, id \in {"T", "R1"}, status \in ExecutionStatusView}

\* The outcomes of receipts that later blocks bring.
ReceiptOutcomes ==
    {ExecutionOutcomeWithIdView(id, status, spawned(status)) :
        id \in ReceiptIds, status \in {SuccessValue("v1"), SuccessReceiptId("R2")}}

InitNewEntry == DriverInit /\ RecordsIdle /\ CodecIdle

\* CollectingTransactionDetails::from_indexer_tx(transaction, block_height)
CallFromIndexerTx(transaction, block_height) ==
    /\ call = "none"
    /\ args' = <<transaction, block_height>>
    /\ entry' = from_indexer_tx(transaction, block_height)
    /\ call' = "from_indexer_tx"
    /\ UNCHANGED <<details, ret, locals, codec_vars>>
    /\ UNCHANGED driver_vars

\* attach_receipt: the receipt view is appended to the entry.
AttachReceipt(receipt_view) ==
    /\ call # "none"
    /\ Len(entry.receipts) < MaxReceipts
    /\ entry' = [entry EXCEPT !.receipts = Append(@, receipt_view)]
    /\ call' = "attach_receipt"
    /\ UNCHANGED <<details, ret, args, locals, codec_vars>>
    /\ UNCHANGED driver_vars

\* attach_outcome: the outcome is appended to the entry.
AttachOutcome(execution_outcome) ==
    /\ call # "none"
    /\ Len(entry.execution_outcomes) < MaxOutcomes
    /\ entry' = [entry EXCEPT !.execution_outcomes = Append(@, execution_outcome)]
    /\ call' = "attach_outcome"
    /\ UNCHANGED <<details, ret, args, locals, codec_vars>>
    /\ UNCHANGED driver_vars

\* entry.transaction_key()
CallTransactionKey ==
    /\ call # "none"
    /\ call' = "transaction_key"
    /\ ret' = transaction_key(entry)
    /\ UNCHANGED <<entry, details, args, locals, codec_vars>>
    /\ UNCHANGED driver_vars

NextNewEntry ==
    \/ \E transaction \in IndexerTxs, block_height \in Heights :
           CallFromIndexerTx(transaction, block_height)
    \/ \E receipt_id \in ReceiptIds : AttachReceipt(ReceiptView(receipt_id))
    \/ \E execution_outcome \in ReceiptOutcomes : AttachOutcome(execution_outcome)
    \/ CallTransactionKey

SpecNewEntry == InitNewEntry /\ [][NextNewEntry]_vars

(***************************************************************************)
(* final_status step by step: find_map pulls the outcomes from the slice   *)
(* iterator one at a time and calls the closure on each.                   *)
(***************************************************************************)
\* The outcomes of the walked entries: every id with a final status, no
\* status yet, or a link to either receipt (links to itself, back and forth
\* included).
WalkOutcomes ==
    {ExecutionOutcomeWithIdView(id, status, spawned(status)) :
        id \in CryptoHashes,
        status \in {Unknown, SuccessValue("v1")} \cup {SuccessReceiptId(r) : r \in ReceiptIds}}

WalkEntries ==
    [transaction : {SignedTransactionView("T", "alice", "bob")},
     receipts : {<<>>},
     execution_outcomes : SeqsUpTo(WalkOutcomes, MaxOutcomes),
     block_height : {1}]

InitWalk ==
    /\ DriverInit
    /\ CodecIdle
    /\ entry \in WalkEntries
    /\ details = NoDetails
    /\ call = "none"
    /\ ret = NoRet
    /\ args = NoArgs
    /\ locals = NoLocals

\* entry.final_status() is entered: looking_for_id, num_outcomes and the
\* iterator at the front; visits counts the closure calls on each position
\* (2 stands for two or more).
WalkStart ==
    /\ call = "none"
    /\ call' = "final_status"
    /\ locals' = [iter |-> 1,
                  looking_for_id |-> entry.transaction.hash,
                  num_outcomes |-> Len(entry.execution_outcomes),
                  visits |-> [k \in 1..Len(entry.execution_outcomes) |-> 0]]
    /\ UNCHANGED <<entry, details, ret, args, codec_vars>>
    /\ UNCHANGED driver_vars

\* A walk that goes back to the front of the list when it follows a link.
WalkStep_restarting ==
    /\ call = "final_status"
    /\ locals # NoLocals
    /\ ret = NoRet
    /\ locals.iter <= Len(entry.execution_outcomes)
    /\ locals' = The({[locals EXCEPT
                          !.iter = IF r.looking_for_id # locals.looking_for_id
                                   THEN 1 ELSE @ + 1,
                          !.looking_for_id = r.looking_for_id,
                          !.visits[locals.iter] = IF @ < 2 THEN @ + 1 ELSE @] :
                      r \in {final_status_closure(entry.execution_outcomes[locals.iter],
                                                  locals.looking_for_id,
                                                  locals.num_outcomes)}})
    /\ ret' = The({IF r.ret.some THEN r.ret ELSE NoRet :
                      r \in {final_status_closure(entry.execution_outcomes[locals.iter],
                                                  locals.looking_for_id,
                                                  locals.num_outcomes)}})
    /\ UNCHANGED <<entry, details, call, args, codec_vars>>
    /\ UNCHANGED driver_vars
\* find_map takes the next outcome from the iterator and calls the closure
\* on it: Some(status) ends the walk, None goes on.
WalkStep ==
    /\ call = "final_status"
    /\ locals # NoLocals
    /\ ret = NoRet
    /\ locals.iter <= Len(entry.execution_outcomes)
    /\ locals' = The({[locals EXCEPT
                          !.iter = @ + 1,
                          !.looking_for_id = r.looking_for_id,
                          !.visits[locals.iter] = IF @ < 2 THEN @ + 1 ELSE @] :
                      r \in {final_status_closure(entry.execution_outcomes[locals.iter],
                                                  locals.looking_for_id,
                                                  locals.num_outcomes)}})
    /\ ret' = The({IF r.ret.some THEN r.ret ELSE NoRet :
                      r \in {final_status_closure(entry.execution_outcomes[locals.iter],
                                                  locals.looking_for_id,
                                                  locals.num_outcomes)}})
    /\ UNCHANGED <<entry, details, call, args, codec_vars>>
    /\ UNCHANGED driver_vars

\* The iterator is exhausted: find_map returns None.
WalkEnd ==
    /\ call = "final_status"
    /\ locals # NoLocals
    /\ ret = NoRet
    /\ locals.iter > Len(entry.execution_outcomes)
    /\ ret' = None
    /\ UNCHANGED <<entry, details, call, args, locals, codec_vars>>
    /\ UNCHANGED driver_vars

NextWalk ==
    \/ WalkStart
    \/ WalkStep
    \/ WalkEnd

\* The call runs to its end once entered: nothing in it waits.
SpecWalk == InitWalk /\ [][NextWalk]_vars /\ WF_vars(NextWalk)

(***************************************************************************)
(* The TryFrom conversions of rows read from storage (lib.rs). A stored    *)
(* number is an integer of any size (a varint or numeric column); a stored *)
(* string may or may not parse.                                            *)
(***************************************************************************)
\* u64::MAX, scaled down.
U64_MAX == 2

\* The numbers a height or shard id column can hold.
StoredNumbers == -1..(U64_MAX + 1)

\* The cast "value as u64" in place of the checked conversion.
to_u64_wrapping(number) == Some(number % (U64_MAX + 1))
\* ToPrimitive::to_u64 of an integer: None unless it is representable.
to_u64(number) ==
    IF number >= 0 /\ number <= U64_MAX THEN Some(number) ELSE None

\* CryptoHash::from_str
CryptoHash_from_str(str) ==
    IF str \in CryptoHashes THEN Ok(str) ELSE Err("incorrect length for hash")

\* AccountId::from_str
AccountId_from_str(str) ==
    IF str \in AccountIds THEN Ok(str) ELSE Err("the Account ID is invalid")

\* impl TryFrom<(T, T)> for BlockHeightShardId
BlockHeightShardId_try_from(value) ==
    IF ~to_u64(value[1]).some
    THEN Err("Failed to parse stored_at_block_height to u64")
    ELSE IF ~to_u64(value[2]).some
    THEN Err("Failed to parse shard_id to u64")
    ELSE Ok(<<to_u64(value[1]).val, to_u64(value[2]).val>>)

\* impl TryFrom<(String, String, String, T, String, T)> for ReceiptRecord
ReceiptRecord_try_from(value) ==
    IF ~CryptoHash_from_str(value[1]).ok
    THEN Err("Failed to parse receipt_id to CryptoHash")
    ELSE IF ~CryptoHash_from_str(value[2]).ok
    THEN Err("Failed to parse parent_transaction_hash to CryptoHash")
    ELSE IF ~AccountId_from_str(value[3]).ok
    THEN Err("Failed to parse receiver_id to AccountId")
    ELSE IF ~to_u64(value[4]).some
    THEN Err("Failed to parse block_height to u64")
    ELSE IF ~CryptoHash_from_str(value[5]).ok
    THEN Err("Failed to parse block_hash to CryptoHash")
    ELSE IF ~to_u64(value[6]).some
    THEN Err("Failed to parse shard_id to u64")
    ELSE Ok([receipt_id |-> CryptoHash_from_str(value[1]).val,
             parent_transaction_hash |-> CryptoHash_from_str(value[2]).val,
             receiver_id |-> AccountId_from_str(value[3]).val,
             block_height |-> to_u64(value[4]).val,
             block_hash |-> CryptoHash_from_str(value[5]).val,
             shard_id |-> to_u64(value[6]).val])

\* impl TryFrom<(String, T)> for BlockRecord
BlockRecord_try_from(value) ==
    IF ~to_u64(value[2]).some
    THEN Err("Failed to parse block_height to u64")
    ELSE IF ~CryptoHash_from_str(value[1]).ok
    THEN Err("Failed to parse block_hash to CryptoHash")
    ELSE Ok([height |-> to_u64(value[2]).val, hash |-> CryptoHash_from_str(value[1]).val])

\* The rows handed to the conversions, with the type converted to.
TryFromInputs ==
    [to : {"BlockHeightShardId"}, value : StoredNumbers \X StoredNumbers]
    \cup [to : {"BlockRecord"}, value : {"T", "not a hash"} \X StoredNumbers]
    \cup [to : {"ReceiptRecord"},
          value : {"R1", "not a hash"} \X {"T", "not a hash"} \X {"alice", "Not An Account"}
                      \X StoredNumbers \X {"T", "not a hash"} \X StoredNumbers]

InitTryFrom ==
    /\ DriverInit
    /\ CodecIdle
    /\ entry = NoEntry
    /\ details = NoDetails
    /\ call = "none"
    /\ ret = NoRet
    /\ args \in TryFromInputs
    /\ locals = NoLocals

\* BlockHeightShardId::try_from(value)
CallBlockHeightShardIdTryFrom ==
    /\ call = "none"
    /\ args.to = "BlockHeightShardId"
    /\ call' = "try_from"
    /\ ret' = BlockHeightShardId_try_from(args.value)
    /\ UNCHANGED <<entry, details, args, locals, codec_vars>>
    /\ UNCHANGED driver_vars

\* ReceiptRecord::try_from(value)
CallReceiptRecordTryFrom ==
    /\ call = "none"
    /\ args.to = "ReceiptRecord"
    /\ call' = "try_from"
    /\ ret' = ReceiptRecord_try_from(args.value)
    /\ UNCHANGED <<entry, details, args, locals, codec_vars>>
    /\ UNCHANGED driver_vars

\* BlockRecord::try_from(value)
CallBlockRecordTryFrom ==
    /\ call = "none"
    /\ args.to = "BlockRecord"
    /\ call' = "try_from"
    /\ ret' = BlockRecord_try_from(args.value)
    /\ UNCHANGED <<entry, details, args, locals, codec_vars>>
    /\ UNCHANGED driver_vars

NextTryFrom ==
    \/ CallBlockHeightShardIdTryFrom
    \/ CallReceiptRecordTryFrom
    \/ CallBlockRecordTryFrom

SpecTryFrom == InitTryFrom /\ [][NextTryFrom]_vars

(***************************************************************************)
(* Calls on a TransactionDetails.                                          *)
(***************************************************************************)
InitDetails ==
    /\ DriverInit
    /\ CodecIdle
    /\ entry = NoEntry
    /\ details \in DetailsSet
    /\ call = "none"
    /\ ret = NoRet
    /\ args = NoArgs
    /\ locals = NoLocals

\* details.to_final_execution_outcome()
CallToFinalExecutionOutcome ==
    /\ call' = "to_final_execution_outcome"
    /\ ret' = Ok(to_final_execution_outcome(details))
    /\ UNCHANGED <<entry, details, args, locals, codec_vars>>
    /\ UNCHANGED driver_vars

\* details.to_final_execution_outcome_with_receipts()
CallToFinalExecutionOutcomeWithReceipts ==
    /\ call' = "to_final_execution_outcome_with_receipts"
    /\ ret' = to_final_execution_outcome_with_receipts(details)
    /\ UNCHANGED <<entry, details, args, locals, codec_vars>>
    /\ UNCHANGED driver_vars

NextDetails ==
    \/ CallToFinalExecutionOutcome
    \/ CallToFinalExecutionOutcomeWithReceipts

SpecDetails == InitDetails /\ [][NextDetails]_vars

(***************************************************************************)
(* The codec applied to a TransactionDetails and to stored blobs.          *)
(***************************************************************************)
InitCodec ==
    /\ DriverInit
    /\ CodecIdle
    /\ entry = NoEntry
    /\ details \in CodecRecords
    /\ call = "none"
    /\ ret = NoRet
    /\ args = NoArgs
    /\ locals = NoLocals

\* add_transaction serializes the record: transaction.try_to_vec(). The blob
\* is what a reader of the row gets; the historical decoders may read it too.
CallTryToVec(h) ==
    /\ blob = <<>>
    /\ call' = "try_to_vec"
    /\ ret' = NoRet
    /\ blob' = try_to_vec(details)
    /\ old_decoders' = h
    /\ consulted' = <<>>
    /\ UNCHANGED <<entry, details, args, locals>>
    /\ UNCHANGED driver_vars

\* A reader gets a blob that is not the current encoding of a record.
StoredBlob(bytes, h) ==
    /\ blob = <<>>
    /\ call' = "stored_blob"
    /\ ret' = NoRet
    /\ blob' = bytes
    /\ old_decoders' = h
    /\ consulted' = <<>>
    /\ UNCHANGED <<entry, details, args, locals>>
    /\ UNCHANGED driver_vars

\* TransactionDetails::borsh_deserialize(&data)
CallBorshDeserialize ==
    /\ call \in {"try_to_vec", "stored_blob"}
    /\ call' = "borsh_deserialize"
    /\ ret' = borsh_deserialize(blob, old_decoders).res
    /\ consulted' = borsh_deserialize(blob, old_decoders).tried
    /\ UNCHANGED <<entry, details, args, locals, blob, old_decoders>>
    /\ UNCHANGED driver_vars

\* The relational reader returns the stored payload of a transaction.
CallRpcGetTransactionByHash ==
    /\ call \in {"try_to_vec", "stored_blob"}
    /\ call' = "get_transaction_by_hash"
    /\ ret' = rpc_server_get_transaction_by_hash(blob)
    /\ consulted' = <<"current">>
    /\ UNCHANGED <<entry, details, args, locals, blob, old_decoders>>
    /\ UNCHANGED driver_vars

NextCodec ==
    \/ CallRpcGetTransactionByHash
    \/ \E h \in HistoricalDecodes : CallTryToVec(h)
    \/ \E bytes \in Damaged(try_to_vec(details)), h \in HistoricalDecodes :
            StoredBlob(bytes, h)
    \/ CallBorshDeserialize

SpecCodec == InitCodec /\ [][NextCodec]_vars

(***************************************************************************)
(* Calls on the transactions_details table.                                *)
(***************************************************************************)
\* Number of calls made on the table.
MaxCalls == 4

\* The records written: two records of one transaction hash, one of another.
StoreRecords ==
    {r \in [receipts : {<<>>},
            receipts_outcome : {<<>>},
            status : {SuccessValue("v1"), Failure("e1")},
            transaction : {SignedTransactionView(hash, "alice", "bob") :
                                hash \in {"T", "R1"}},
            transaction_outcome :
                {ExecutionOutcomeWithIdView("T", SuccessValue("v1"), <<>>)}] :
        r.transaction.hash = "R1" => r.status = SuccessValue("v1")}

\* scylla_db_client.add_transaction(transaction, block_height)
CallAddTransaction(transaction, block_height) ==
    /\ Len(store_log) < MaxCalls
    /\ transactions_details' = add_transaction(transactions_details, transaction, block_height)
    /\ store_log' = Append(store_log,
           [op |-> "add_transaction",
            transaction_hash |-> transaction.transaction.hash,
            block_height |-> block_height,
            bytes |-> try_to_vec(transaction)])
    /\ UNCHANGED <<record_vars, codec_vars>>
    /\ UNCHANGED <<meta, receipts_map, chain_final, proc, runs, indexer_id, chain_id,
                   stream_next, stream_open, handlers, delivered, handled, main_return,
                   BLOCK_PROCESSED_TOTAL, LATEST_BLOCK_HEIGHT>>

\* The reader looks a transaction up by its hash.
CallGetTransactionByHash(transaction_hash) ==
    /\ Len(store_log) < MaxCalls
    /\ store_log' = Append(store_log,
           [op |-> "get_transaction_by_hash",
            transaction_hash |-> transaction_hash,
            result |-> get_transaction_by_hash(transactions_details, transaction_hash)])
    /\ UNCHANGED <<record_vars, codec_vars>>
    /\ UNCHANGED <<meta, transactions_details, receipts_map, chain_final, proc, runs,
                   indexer_id, chain_id, stream_next, stream_open, handlers, delivered,
                   handled, main_return, BLOCK_PROCESSED_TOTAL, LATEST_BLOCK_HEIGHT>>

NextStore ==
    \/ \E transaction \in StoreRecords, block_height \in Heights :
            CallAddTransaction(transaction, block_height)
    \/ \E transaction_hash \in {"T", "R1"} : CallGetTransactionByHash(transaction_hash)

SpecStore == Init /\ [][NextStore]_vars

(***************************************************************************)
(* Properties of the driver (specification Spec).                          *)
(***************************************************************************)
\* The cursor of an indexer id, -1 when the id has no row.
cursor(table, id) ==
    IF meta_rows(table, id) = {} THEN -1
    ELSE (CHOOSE r \in meta_rows(table, id) : TRUE)[2]

Has(seq, x) == \E k \in 1..Len(seq) : seq[k] = x

\* C1: when index_transactions returned an error for a block, update_meta is
\* not executed for that block (the cursor is not advanced to it).
C1_NoCursorAdvanceAfterIndexError ==
    \A i \in 1..Len(handlers) :
        handlers[i].tx = "err" => ~Has(handlers[i].effects, "update_meta")

\* C2: over all runs, in whatever mode each is started, the stored
\* last_processed_block_height of an indexer id never decreases.
C2_CursorNeverDecreases ==
    [][\A id \in IndexerIds : cursor(meta', id) >= cursor(meta, id)]_vars

\* C3: within the handling of one block update_meta is issued at most once,
\* only after index_transactions has returned, and it is the last storage
\* effect of the handling: no transaction write follows it.
C3_CursorWriteLast ==
    \A i \in 1..Len(handlers) :
        LET e == handlers[i].effects
        IN  \A k \in 1..Len(e) :
                e[k] = "update_meta" =>
                    /\ k = Len(e)
                    /\ \E j \in 1..(k - 1) : e[j] = "index_transactions_returned"

\* A handler has stored a record, seen index_transactions return and written
\* the cursor.
C3_Witness ==
    \E i \in 1..Len(handlers) :
        /\ handlers[i].pc = "metrics"
        /\ Has(handlers[i].effects, "add_transaction")
        /\ Has(handlers[i].effects, "update_meta")

\* C4: at most one handler is in flight; a message is handed to a handler
\* only when every earlier message's handler has completed, and the handlers
\* complete in the order the stream delivered the messages.
C4_OneHandlerInFlight ==
    /\ Len(handlers) <= 1
    /\ proc = "running" =>
        /\ Len(delivered) = Len(handled) + Len(handlers)
        /\ \A k \in 1..Len(handled) : handled[k][1] = delivered[k]
        /\ \A i \in 1..Len(handlers) : handlers[i].height = delivered[Len(handled) + i]

\* A second message is being handled after the first one's handler completed.
C4_Witness ==
    /\ proc = "running"
    /\ Len(handled) >= 1
    /\ Len(handlers) = 1
    /\ handlers[1].pc = "update_meta"

(***************************************************************************)
(* Properties of CollectingTransactionDetails (specification SpecEntry).   *)
(***************************************************************************)
\* The position of the first outcome with the given id in the whole list,
\* 0 when the list holds none.
Locate(outcomes, id) ==
    IF \E i \in 1..Len(outcomes) : outcomes[i].id = id
    THEN CHOOSE i \in 1..Len(outcomes) :
            /\ outcomes[i].id = id
            /\ \A j \in 1..(i - 1) : outcomes[j].id # id
    ELSE 0

\* The chain of the data model: start at id, locate the outcome with that id
\* in the whole list, follow SuccessReceiptId. path holds the positions
\* visited; end is "status" when the chain ends in an outcome that is no
\* SuccessReceiptId, "missing" when it reaches an id without outcome, and
\* "cycle" when the links lead back into the chain.
RECURSIVE Chain(_, _, _)
Chain(outcomes, id, path) ==
    LET i == Locate(outcomes, id)
    IN  IF i = 0 THEN [end |-> "missing", path |-> path]
        ELSE IF Has(path, i) THEN [end |-> "cycle", path |-> path]
        ELSE IF outcomes[i].outcome.status.tag = "SuccessReceiptId"
             THEN Chain(outcomes, outcomes[i].outcome.status.val, Append(path, i))
             ELSE [end |-> "status", path |-> Append(path, i)]

ChainOf(e) == Chain(e.execution_outcomes, e.transaction.hash, <<>>)

\* The status of the outcome the chain ends in.
ChainStatus(e) ==
    e.execution_outcomes[ChainOf(e).path[Len(ChainOf(e).path)]].outcome.status

\* The chain's outcomes lie in the list in the order of the chain.
ChainInListOrder(e) ==
    \A k \in 1..(Len(ChainOf(e).path) - 1) : ChainOf(e).path[k] < ChainOf(e).path[k + 1]

\* C5: when every outcome of the chain is in the list and the chain ends in
\* Failure(e) or SuccessValue(v), final_status returns that status, wherever
\* the chain's outcomes lie in the list.
C5_FinalityWalkResult ==
    (/\ call = "final_status"
     /\ ChainOf(entry).end = "status"
     /\ ChainStatus(entry).tag \in {"Failure", "SuccessValue"})
        => ret = Some(ChainStatus(entry))

\* The entries whose SuccessReceiptId links never lead back to an outcome
\* already passed, from whatever id the walk starts.
Acyclic(e) ==
    \A id \in CryptoHashes : Chain(e.execution_outcomes, id, <<>>).end # "cycle"

InitEntryAcyclic == InitEntry /\ Acyclic(entry)

SpecEntryAcyclic == InitEntryAcyclic /\ [][NextEntry]_vars

\* C6: final_status returns None, and to_final_transaction_result an error,
\* exactly when the chain reaches an id for which the list holds no outcome.
C6_NotFinalIffOutcomeMissing ==
    /\ call = "final_status" => (ret = None <=> ChainOf(entry).end = "missing")
    /\ call = "to_final_transaction_result" =>
            (~ret.ok <=> ChainOf(entry).end = "missing")

\* C7: a record returned by to_final_transaction_result has status
\* SuccessValue, Failure or NotStarted, NotStarted only for an entry with a
\* single outcome; an entry whose status is Started yields no record.
C7_FrozenOnlyWhenDefinitive ==
    (call = "to_final_transaction_result" /\ ret.ok) =>
        /\ ret.val.status.tag \in {"SuccessValue", "Failure", "NotStarted"}
        /\ ret.val.status.tag = "NotStarted" => Len(entry.execution_outcomes) = 1

FrozenShape(e, record) ==
    /\ record.transaction_outcome = e.execution_outcomes[1]
    /\ Len(record.receipts_outcome) = Len(e.execution_outcomes) - 1
    /\ \A k \in 1..Len(record.receipts_outcome) :
            record.receipts_outcome[k] = e.execution_outcomes[k + 1]
    /\ Len(record.receipts) = Len(e.receipts)
    /\ \A k \in 1..Len(e.receipts) : record.receipts[k] = e.receipts[k]
    /\ record.transaction = e.transaction

C10_Shape ==
    /\ (call = "to_final_transaction_result" /\ ret.ok) => FrozenShape(entry, ret.val)
    /\ (call = "from" /\ Len(entry.execution_outcomes) >= 1) =>
            (ret # Panic /\ FrozenShape(entry, ret.val))

\* C10: for an entry with at least one outcome the record built by
\* to_final_transaction_result (when it succeeds) and by the From conversion
\* has the first outcome as transaction_outcome, the remaining outcomes in
\* order as receipts_outcome, the entry's receipts in order and the entry's
\* transaction; to_final_transaction_result leaves the entry as it was.
C10_FrozenRecordShape ==
    /\ []C10_Shape
    /\ [][call' = "to_final_transaction_result" => entry' = entry]_vars

\* A record frozen from an entry with three outcomes and two receipts.
C10_Witness ==
    /\ call = "to_final_transaction_result"
    /\ ret.ok
    /\ Len(ret.val.receipts_outcome) = 2
    /\ ret.val.receipts_outcome[1] # ret.val.receipts_outcome[2]
    /\ Len(ret.val.receipts) = 2

(***************************************************************************)
(* Properties of TransactionDetails (specification SpecDetails).           *)
(***************************************************************************)
\* The sequence without the receipts whose receipt_id is id.
RECURSIVE Without(_, _)
Without(receipts, id) ==
    IF receipts = <<>> THEN <<>>
    ELSE IF Head(receipts).receipt_id = id THEN Without(Tail(receipts), id)
    ELSE <<Head(receipts)>> \o Without(Tail(receipts), id)

\* The receipts the local-receipt filter is to return.
FilteredReceipts(d) ==
    IF /\ d.transaction.signer_id = d.transaction.receiver_id
       /\ d.transaction_outcome.outcome.receipt_ids # <<>>
    THEN Without(d.receipts, d.transaction_outcome.outcome.receipt_ids[1])
    ELSE d.receipts

FinalOutcomeOf(d, view) ==
    /\ view.status = d.status
    /\ view.transaction = d.transaction
    /\ view.transaction_outcome = d.transaction_outcome
    /\ view.receipts_outcome = d.receipts_outcome

\* The local-receipt filter is applied to stored receipts while the
\* transaction outcome has no receipt id to compare with.
NoFirstReceiptId(d) ==
    /\ d.transaction.signer_id = d.transaction.receiver_id
    /\ d.receipts # <<>>
    /\ d.transaction_outcome.outcome.receipt_ids = <<>>

\* C9 as stated: for every TransactionDetails the call returns the stored
\* receipts, in order, without those whose id is the first receipt id of the
\* transaction outcome when signer = receiver, all of them otherwise, and
\* final_outcome is to_final_execution_outcome().
C9_LocalReceiptFilter ==
    call = "to_final_execution_outcome_with_receipts" =>
        /\ ret # Panic
        /\ ret.val.receipts = FilteredReceipts(details)
        /\ FinalOutcomeOf(details, ret.val.final_outcome)

\* C9 amended: the same, except that the call panics when signer = receiver,
\* receipts are stored and the transaction outcome has no receipt id.
C9_LocalReceiptFilterUnlessPanic ==
    call = "to_final_execution_outcome_with_receipts" =>
        IF NoFirstReceiptId(details)
        THEN ret = Panic
        ELSE /\ ret # Panic
             /\ ret.val.receipts = FilteredReceipts(details)
             /\ FinalOutcomeOf(details, ret.val.final_outcome)

\* The filter dropped the local receipt and kept another one.
C9_Witness ==
    /\ call = "to_final_execution_outcome_with_receipts"
    /\ details.transaction.signer_id = details.transaction.receiver_id
    /\ ret # Panic
    /\ Len(details.receipts) = 2
    /\ Len(ret.val.receipts) = 1
    /\ Len(details.transaction_outcome.outcome.receipt_ids) = 2

(***************************************************************************)
(* Properties of the record codec (specification SpecCodec).               *)
(***************************************************************************)
\* The position in Versions of the oldest historical decoder that reads the
\* blob, 0 when none does.
FirstDecoding(h) ==
    IF \E k \in 1..Len(Versions) : h[Versions[k]].ok
    THEN CHOOSE k \in 1..Len(Versions) :
            /\ h[Versions[k]].ok
            /\ \A j \in 1..(k - 1) : ~h[Versions[j]].ok
    ELSE 0

\* C11: borsh_deserialize returns the current-version decode whenever it
\* succeeds and then calls no historical decoder; otherwise it calls the
\* historical decoders oldest first (V0201, V0212, V0220, V0230) up to the
\* first that decodes and returns the projection of that variant; when no
\* variant decodes it returns an error.
C11_DecodeWithFallback ==
    call = "borsh_deserialize" =>
        IF from_slice(blob).ok
        THEN /\ ret = from_slice(blob)
             /\ consulted = <<"current">>
        ELSE LET k == FirstDecoding(old_decoders)
             IN  IF k = 0
                 THEN /\ ~ret.ok
                      /\ consulted = <<"current">> \o Versions
                 ELSE /\ consulted = <<"current">> \o SubSeq(Versions, 1, k)
                      /\ ret = IF old_decoders[Versions[k]].val.json_current
                               THEN Ok(old_decoders[Versions[k]].val.fields)
                               ELSE Err("serde_json")

\* The current decoder and V0201 failed, V0212 and V0230 read the blob: the
\* record of V0212 is returned.
C11_Witness ==
    /\ call = "borsh_deserialize"
    /\ ~from_slice(blob).ok
    /\ ~old_decoders["V0201"].ok
    /\ old_decoders["V0212"].ok
    /\ old_decoders["V0230"].ok
    /\ consulted = <<"current", "V0201", "V0212">>
    /\ ret = Ok(HistoricalFields("V0212"))

\* C12: decoding the bytes add_transaction wrote for a current-version
\* record x with borsh_deserialize yields x, and only the current-version
\* decoder is called.
C12_CodecRoundTrip ==
    (call = "borsh_deserialize" /\ blob = try_to_vec(details)) =>
        /\ ret = Ok(details)
        /\ consulted = <<"current">>

\* A record with two receipts, a receipt outcome and a Failure status came
\* back, while a historical decoder reads the same bytes.
C12_Witness ==
    /\ call = "borsh_deserialize"
    /\ blob = try_to_vec(details)
    /\ Len(details.receipts) = 2
    /\ Len(details.receipts_outcome) = 1
    /\ details.status.tag = "Failure"
    /\ details.transaction_outcome.outcome.receipt_ids # <<>>
    /\ old_decoders["V0201"].ok
    /\ ret = Ok(details)

(***************************************************************************)
(* Properties of the driver: start, resume, errors, metrics.               *)
(***************************************************************************)
\* The step is the start of a run.
IsStart == proc = "stopped" /\ proc' = "running"

\* C13: the stream of a run starts at the given height in mode from-block;
\* in mode from-interruption at the stored cursor of the run's indexer id
\* when it has a cursor row and at the chain's final block height when it
\* has none; in mode from-latest at the chain's final block height whatever
\* the stored cursor is.
C13_StartHeightResolution ==
    [][IsStart =>
        stream_next' =
            CASE chain_id'.kind = "FromBlock" -> chain_id'.height
              [] chain_id'.kind = "FromInterruption" ->
                    IF cursor(meta, indexer_id') # -1
                    THEN cursor(meta, indexer_id')
                    ELSE chain_final
              [] chain_id'.kind = "FromLatest" -> chain_final]_vars

\* A run started in mode from-latest at the final block while its indexer id
\* has a cursor below it.
C13_Witness ==
    /\ proc = "running"
    /\ chain_id.kind = "FromLatest"
    /\ delivered = <<>>
    /\ cursor(meta, indexer_id) # -1
    /\ cursor(meta, indexer_id) < stream_next
    /\ stream_next = chain_final

\* No handler of the current run has written the cursor yet.
CursorAsAtStart ==
    /\ \A k \in 1..Len(handled) : ~Has(handled[k][3], "update_meta")
    /\ \A i \in 1..Len(handlers) : ~Has(handlers[i].effects, "update_meta")

\* The height the stream of the current run started at.
StreamStart == stream_next - Len(delivered)

\* C14: a run started in mode from-interruption while a cursor N is stored
\* for its indexer id (the process before it stopped, or was killed, after
\* the cursor write of block N) starts its stream at N, and the stream
\* delivers N, N+1, ... without skipping a block above the cursor.
C14_ResumeAtCursor ==
    (proc = "running" /\ chain_id.kind = "FromInterruption") =>
        /\ (CursorAsAtStart /\ cursor(meta, indexer_id) # -1) =>
                StreamStart = cursor(meta, indexer_id)
        /\ \A k \in 1..Len(delivered) : delivered[k] = StreamStart + k - 1

\* The second run resumed at cursor 0 and handles block 1 again: the record
\* of block 1 is in the table from the run before.
C14_Witness ==
    /\ runs = 2
    /\ proc = "running"
    /\ chain_id.kind = "FromInterruption"
    /\ delivered = <<0, 1>>
    /\ Len(handlers) = 1
    /\ handlers[1].height = 1
    /\ handlers[1].effects = <<>>
    /\ cursor(meta, indexer_id) = 0
    /\ \E r \in transactions_details : r[2] = 1

\* The step is the return of a handle_streamer_message future to the loop.
HandlerReturns == proc = "running" /\ Len(handled') = Len(handled) + 1

\* The entry of the handler that returns in the step: height, result, effects.
Returning == handled'[Len(handled')]

\* C15: when update_meta fails for block H, handle_streamer_message returns
\* an error, the blocks-processed counter is not incremented and the
\* latest-block-height gauge is not set.
C15_CursorWriteFailure ==
    [][(HandlerReturns /\ ~Has(Returning[3], "update_meta")) =>
            /\ Returning[2] = "err"
            /\ BLOCK_PROCESSED_TOTAL' = BLOCK_PROCESSED_TOTAL
            /\ LATEST_BLOCK_HEIGHT' = LATEST_BLOCK_HEIGHT]_vars

\* Block 0 was handled and counted, then the cursor write of block 1 failed:
\* the counter, the gauge and the cursor are those of block 0.
C15_Witness ==
    /\ proc = "running"
    /\ Len(handled) = 2
    /\ handled[1][1] = 0 /\ handled[1][2] = "ok"
    /\ handled[2][1] = 1 /\ handled[2][2] = "err"
    /\ ~Has(handled[2][3], "update_meta")
    /\ BLOCK_PROCESSED_TOTAL = 1
    /\ LATEST_BLOCK_HEIGHT = 0
    /\ cursor(meta, indexer_id) = 0

\* The step is the return of main.
MainReturns == ~main_return.returned /\ main_return'.returned

\* C16: a handler's error does not end the driver loop: the process keeps
\* running on the same stream, at the same position. main returns only when
\* the stream has ended and no handler is in flight, and it returns Ok(())
\* when the sender returned Ok(Ok(())) and the sender's error otherwise.
C16_HandlerErrorsDoNotAbort ==
    [][/\ (HandlerReturns /\ Returning[2] = "err") =>
            /\ proc' = "running"
            /\ stream_open' = stream_open
            /\ stream_next' = stream_next
            /\ delivered' = delivered
            /\ main_return' = main_return
       /\ MainReturns =>
            /\ proc = "running"
            /\ ~stream_open
            /\ handlers = <<>>
            /\ main_return'.sender \in SenderResults
            /\ (main_return'.result = "Ok(())") <=> (main_return'.sender = "Ok(Ok(()))")
            /\ main_return'.result \in {"Ok(())", "Err(e)"}]_vars

\* The handler of block 0 returned an error and the loop went on: block 1
\* has been taken from the stream and handled after it.
C16_Witness ==
    /\ proc = "running"
    /\ Len(handled) = 2
    /\ handled[1][1] = 0 /\ handled[1][2] = "err"
    /\ handled[2][1] = 1 /\ handled[2][2] = "ok"
    /\ ~stream_open
    /\ handlers = <<>>

\* C17: while a process runs, the blocks-processed counter never decreases
\* and increases, by exactly one, exactly in the steps in which a handler
\* returns after a successful cursor write; when a handler returns Ok(H) the
\* latest-block-height gauge is H and H is the cursor of the indexer id.
C17_Metrics ==
    [][(proc = "running" /\ proc' = "running") =>
            /\ BLOCK_PROCESSED_TOTAL' >= BLOCK_PROCESSED_TOTAL
            /\ BLOCK_PROCESSED_TOTAL' =
                   IF HandlerReturns /\ Has(Returning[3], "update_meta")
                   THEN BLOCK_PROCESSED_TOTAL + 1
                   ELSE BLOCK_PROCESSED_TOTAL
            /\ (HandlerReturns /\ Returning[2] = "ok") =>
                   /\ LATEST_BLOCK_HEIGHT' = Returning[1]
                   /\ cursor(meta', indexer_id) = Returning[1]]_vars

\* Three blocks handled in one run: block 0 with a failed cursor write,
\* block 1 counted with the gauge set, block 2 counted although its height
\* does not fit the gauge.
C17_Witness ==
    /\ proc = "running"
    /\ Len(handled) = 3
    /\ ~Has(handled[1][3], "update_meta")
    /\ handled[2][1] = 1 /\ handled[2][2] = "ok"
    /\ handled[3][1] = 2 /\ handled[3][2] = "err"
    /\ Has(handled[3][3], "update_meta")
    /\ BLOCK_PROCESSED_TOTAL = 2
    /\ LATEST_BLOCK_HEIGHT = 1
    /\ cursor(meta, indexer_id) = 2

(***************************************************************************)
(* Properties of the transactions_details table.                           *)
(***************************************************************************)
\* The position of the last add_transaction for (hash, height) among the
\* first n calls, 0 when there is none.
RECURSIVE LastWrite(_, _, _)
LastWrite(hash, height, n) ==
    IF n = 0 THEN 0
    ELSE IF /\ store_log[n].op = "add_transaction"
            /\ store_log[n].transaction_hash = hash
            /\ store_log[n].block_height = height
         THEN n
         ELSE LastWrite(hash, height, n - 1)

\* The heights at which hash was written among the first n calls.
WrittenHeights(hash, n) == {h \in Heights : LastWrite(hash, h, n) # 0}

\* What a lookup of hash answers after the first n calls: the bytes last
\* written at the greatest height the hash was written at.
LatestWritten(hash, n) ==
    IF WrittenHeights(hash, n) = {} THEN Err("not found")
    ELSE LET top == CHOOSE h \in WrittenHeights(hash, n) :
                        \A g \in WrittenHeights(hash, n) : g <= h
         IN  Ok(store_log[LastWrite(hash, top, n)].bytes)

\* C18: after any sequence of add_transaction calls the table holds exactly
\* one row for each (transaction_hash, block_height) written, with the bytes
\* of the last write to that pair; a lookup by hash alone answers with the
\* row of the greatest block height.
C18_StorageIdentity ==
    /\ \A r, q \in transactions_details : (r[1] = q[1] /\ r[2] = q[2]) => r = q
    /\ {<<r[1], r[2]>> : r \in transactions_details} =
           {<<store_log[k].transaction_hash, store_log[k].block_height>> :
                k \in {j \in 1..Len(store_log) : store_log[j].op = "add_transaction"}}
    /\ \A r \in transactions_details :
           r[4] = store_log[LastWrite(r[1], r[2], Len(store_log))].bytes
    /\ \A k \in 1..Len(store_log) :
           store_log[k].op = "get_transaction_by_hash" =>
               store_log[k].result = LatestWritten(store_log[k].transaction_hash, k - 1)

\* One hash written at heights 0 and 1, the pair of height 1 written again
\* with other bytes, then looked up: two rows, and the answer is the second
\* write of height 1.
C18_Witness ==
    /\ Len(store_log) = 4
    /\ \A k \in 1..3 : /\ store_log[k].op = "add_transaction"
                        /\ store_log[k].transaction_hash = "T"
    /\ store_log[1].block_height = 1
    /\ store_log[2].block_height = 0
    /\ store_log[3].block_height = 1
    /\ store_log[3].bytes # store_log[1].bytes
    /\ store_log[4].op = "get_transaction_by_hash"
    /\ store_log[4].transaction_hash = "T"
    /\ store_log[4].result = Ok(store_log[3].bytes)
    /\ Cardinality(transactions_details) = 2

(***************************************************************************)
(* Determinism and the receipt index.                                      *)
(***************************************************************************)
\* The tables as one value.
Tables(m, t, r) == [meta |-> m, transactions_details |-> t, receipts_map |-> r]

\* The tables after the first n storage calls of writes.
RECURSIVE ApplyWrites(_, _, _)
ApplyWrites(tables, writes, n) ==
    IF n = 0 THEN tables
    ELSE LET before == ApplyWrites(tables, writes, n - 1)
             w == writes[n]
         IN  IF w.op = "add_transaction"
             THEN [before EXCEPT !.transactions_details =
                        add_transaction(@, w.transaction, w.block_height)]
             ELSE [before EXCEPT !.receipts_map =
                        add_receipt(@, w.receipt_id, w.parent_tx_hash,
                                    w.block_height, w.shard_id)]

\* The number of index writes among the storage outcomes of a handling.
IndexWrites(effects) ==
    Cardinality({k \in 1..Len(effects) : effects[k] \in {"add_transaction", "add_receipt"}})

\* The tables after the handlings of the first n entries, one after the
\* other: each entry is a block height and the storage outcomes of its
\* handling (which index writes were made, whether the cursor was written).
RECURSIVE Replay(_, _, _)
Replay(id, entries, n) ==
    IF n = 0 THEN Tables({}, {}, {})
    ELSE LET e == entries[n]
             indexed == ApplyWrites(Replay(id, entries, n - 1),
                                    BlockWrites(BlockTxs(e[1]), e[1]),
                                    IndexWrites(e[3]))
         IN  IF Has(e[3], "update_meta")
             THEN [indexed EXCEPT !.meta = update_meta(@, id, e[1])]
             ELSE indexed

\* The handlings of the current run: the returned ones, then those in flight.
Handlings ==
    handled \o [i \in 1..Len(handlers) |->
                    <<handlers[i].height, "pending", handlers[i].effects>>]

\* C19: the persisted transaction records, receipt records and cursor of a
\* run are a function of its indexer id, the sequence of block messages it
\* received and the storage outcomes of their handlings: a run on the empty
\* store holds, at every point, the tables obtained by replaying that
\* sequence, so two runs with the same sequence hold the same tables.
C19_Determinism ==
    (runs = 1 /\ proc = "running") =>
        Tables(meta, transactions_details, receipts_map) =
            Replay(indexer_id, Handlings, Len(Handlings))

\* A run that handled block 0 with a failed cursor write and block 1 with
\* its receipt record not written, the stream ended.
C19_Witness ==
    /\ runs = 1
    /\ proc = "running"
    /\ ~stream_open
    /\ handlers = <<>>
    /\ Len(handled) = 2
    /\ handled[1] = <<0, "err", <<"add_transaction", "index_transactions_returned">>>>
    /\ handled[2] = <<1, "ok", <<"add_transaction", "index_transactions_returned",
                                 "update_meta">>>>
    /\ Cardinality(transactions_details) = 2
    /\ receipts_map = {}
    /\ cursor(meta, indexer_id) = 1

\* The receipts list of a stored row, read back from its bytes.
StoredReceipts(row) == from_slice(row[4]).val.receipts

\* C20: once the handler of a block has advanced the cursor to the block,
\* for every transaction record persisted at that block and every receipt in
\* its receipts list, receipts_map holds a row of that receipt_id whose
\* parent_transaction_hash is the transaction's hash.
C20_ReceiptIndexComplete ==
    \A k \in 1..Len(Handlings) :
        Has(Handlings[k][3], "update_meta") =>
            \A row \in {r \in transactions_details : r[2] = Handlings[k][1]} :
                \A j \in 1..Len(StoredReceipts(row)) :
                    \E rec \in receipts_map :
                        /\ rec[1] = StoredReceipts(row)[j].receipt_id
                        /\ rec[3] = row[1]

(***************************************************************************)
(* Properties of the readers of stored payloads.                           *)
(***************************************************************************)
\* C21: get_transaction_by_hash of the relational backend succeeds on every
\* payload on which TransactionDetails::borsh_deserialize succeeds, and
\* returns the same record: a payload in an older variant comes back in the
\* current form.
C21_ReaderDecodesHistorical ==
    (call = "get_transaction_by_hash"
        /\ borsh_deserialize(blob, old_decoders).res.ok) =>
            ret = borsh_deserialize(blob, old_decoders).res

\* C26: when the payload fails the current decoder and the first historical
\* variant that decodes it cannot be projected into the current shape,
\* borsh_deserialize returns an error and has called no decoder of a later
\* variant.
C26_ProjectionFailureNotRetried ==
    (/\ call = "borsh_deserialize"
     /\ ~from_slice(blob).ok
     /\ FirstDecoding(old_decoders) # 0
     /\ ~old_decoders[Versions[FirstDecoding(old_decoders)]].val.json_current) =>
        /\ ~ret.ok
        /\ \A j \in 1..Len(Versions) :
                j > FirstDecoding(old_decoders) => ~Has(consulted, Versions[j])

\* V0201 decodes the payload but cannot be projected, V0212 would decode it
\* and could be projected: the result is the error, V0212 was not tried.
C26_Witness ==
    /\ call = "borsh_deserialize"
    /\ ~from_slice(blob).ok
    /\ old_decoders["V0201"].ok
    /\ ~old_decoders["V0201"].val.json_current
    /\ old_decoders["V0212"].ok
    /\ old_decoders["V0212"].val.json_current
    /\ ~ret.ok
    /\ consulted = <<"current", "V0201">>

(***************************************************************************)
(* Properties of the cursor, continued.                                    *)
(***************************************************************************)
\* C22: within one run, once the cursor write of a block has failed, no
\* handler of a later block of the run writes the cursor (a run handles
\* each height once, so the block is not handled again in the run): the
\* stored cursor never passes a block whose handler did not return Ok.
C22_NoGapBehindCursor ==
    proc = "running" =>
        \A k \in 1..Len(Handlings) :
            (Handlings[k][2] = "err" /\ ~Has(Handlings[k][3], "update_meta")) =>
                \A j \in 1..Len(Handlings) :
                    (j > k /\ Handlings[j][1] > Handlings[k][1]) =>
                        ~Has(Handlings[j][3], "update_meta")

(***************************************************************************)
(* Properties of the conversions, continued.                               *)
(***************************************************************************)
\* The two conversions agree where to_final_transaction_result succeeds.
ConversionsAgree ==
    /\ (call = "from" /\ to_final_transaction_result(entry).ok) =>
            ret = to_final_transaction_result(entry)
    /\ (call = "to_final_transaction_result" /\ ret.ok) =>
            from_collecting(entry) = ret

NoFirstIdToCompare(d) ==
    /\ d.transaction.signer_id = d.transaction.receiver_id
    /\ d.receipts # <<>>
    /\ d.transaction_outcome.outcome.receipt_ids = <<>>

\* C27: to_final_execution_outcome_with_receipts panics exactly when
\* signer_id == receiver_id, the receipts list is not empty and
\* transaction_outcome.outcome.receipt_ids is empty; otherwise it returns a
\* value, and with an empty receipts list the value has an empty receipts
\* list.
C27_FilterPanicsExactlyWhen ==
    call = "to_final_execution_outcome_with_receipts" =>
        /\ (ret = Panic) <=> NoFirstIdToCompare(details)
        /\ details.receipts = <<>> => (ret # Panic /\ ret.val.receipts = <<>>)

\* Signer and receiver are the same account, no receipt and no receipt id:
\* the conversion returns a value with no receipt.
C27_Witness ==
    /\ call = "to_final_execution_outcome_with_receipts"
    /\ details.transaction.signer_id = details.transaction.receiver_id
    /\ details.receipts = <<>>
    /\ details.transaction_outcome.outcome.receipt_ids = <<>>
    /\ ret # Panic
    /\ ret.val.receipts = <<>>

\* C28: a handler that returns for a height H above I64_MAX returns an error
\* and leaves the latest-block-height gauge as it was; when its cursor write
\* had succeeded the cursor row had been written to H and the counter is
\* incremented in the step. A handler that returns after a successful cursor
\* write for a height H up to I64_MAX returns Ok and sets the gauge to H.
C28_GaugeRange ==
    [][HandlerReturns =>
          IF Returning[1] > I64_MAX
          THEN /\ Returning[2] = "err"
               /\ LATEST_BLOCK_HEIGHT' = LATEST_BLOCK_HEIGHT
               /\ Has(Returning[3], "update_meta") =>
                      /\ BLOCK_PROCESSED_TOTAL' = BLOCK_PROCESSED_TOTAL + 1
                      /\ cursor(meta, indexer_id) >= Returning[1]
          ELSE Has(Returning[3], "update_meta") =>
                      /\ Returning[2] = "ok"
                      /\ LATEST_BLOCK_HEIGHT' = Returning[1]]_vars

\* A height above I64_MAX has been handled after a height that fits, in one
\* run: the cursor is at the height, the block is counted, the gauge still
\* shows the earlier height.
C28_Witness ==
    /\ proc = "running"
    /\ Len(handled) = 2
    /\ handled[1][2] = "ok"
    /\ handled[2][1] > I64_MAX
    /\ handled[2][2] = "err"
    /\ Has(handled[2][3], "update_meta")
    /\ cursor(meta, indexer_id) = handled[2][1]
    /\ BLOCK_PROCESSED_TOTAL = 2
    /\ LATEST_BLOCK_HEIGHT = handled[1][1]

\* The step in which the store executes handler i's update_meta.
CursorWritten(i) ==
    /\ i \in 1..Len(handlers)
    /\ Len(handlers') = Len(handlers)
    /\ handlers[i].pc = "update_meta"
    /\ handlers'[i].pc = "metrics"

\* The step in which a process starts in mode from-interruption.
StartsFromInterruption ==
    /\ proc = "stopped"
    /\ proc' = "running"
    /\ chain_id'.kind = "FromInterruption"

\* C29: update_meta(id, h) sets the cursor row of indexer id to h and leaves
\* the row of every other indexer id as it was; no step changes the meta
\* table otherwise; there is at most one cursor row per indexer id; a start
\* in mode from-interruption for id resolves the start height from the row
\* of id alone.
C29_CursorIsolation ==
    [][/\ \A id \in IndexerIds : Cardinality(meta_rows(meta', id)) <= 1
       /\ \A i \in 1..buffer_unordered + 1 :
              CursorWritten(i) =>
                  /\ meta_rows(meta', indexer_id) = {<<indexer_id, handlers[i].height>>}
                  /\ \A id \in IndexerIds \ {indexer_id} :
                         meta_rows(meta', id) = meta_rows(meta, id)
       /\ (\A i \in 1..buffer_unordered + 1 : ~CursorWritten(i)) => meta' = meta
       /\ StartsFromInterruption =>
              stream_next' = get_start_block_height(
                                 chain_id', meta_rows(meta, indexer_id'), indexer_id')]_vars

\* Indexer b has written its cursor while the row of indexer a, written by
\* an earlier run, holds another height.
C29_Witness ==
    /\ proc = "running"
    /\ indexer_id = "b"
    /\ cursor(meta, "a") > cursor(meta, "b")
    /\ cursor(meta, "b") >= 0
    /\ handled # <<>>
    /\ Has(handled[1][3], "update_meta")

\* C23: the entry built by from_indexer_tx(tx, h) has no receipts and exactly
\* one execution outcome, the transaction's own (whose id is the hash when
\* the indexed transaction is well formed); from then on, whatever receipts
\* and outcomes are appended, transaction_key() is (tx.hash, h) and the
\* first outcome stays the transaction's own; the entry built from the same
\* transaction at another height has another key.
C23_NewEntry ==
    call # "none" =>
        /\ call = "from_indexer_tx" =>
               /\ entry.receipts = <<>>
               /\ entry.execution_outcomes = <<args[1].outcome.execution_outcome>>
        /\ args[1].outcome.execution_outcome.id = args[1].transaction.hash =>
               entry.execution_outcomes[1].id = args[1].transaction.hash
        /\ entry.execution_outcomes[1] = args[1].outcome.execution_outcome
        /\ transaction_key(entry) = TransactionKey(args[1].transaction.hash, args[2])
        /\ call = "transaction_key" =>
               ret = TransactionKey(args[1].transaction.hash, args[2])
        /\ \A block_height \in Heights \ {args[2]} :
               transaction_key(from_indexer_tx(args[1], block_height)) # transaction_key(entry)

\* An entry built at height 1 from a well-formed transaction, with a receipt
\* and two outcomes attached, asked for its key.
C23_Witness ==
    /\ call = "transaction_key"
    /\ args[2] = 1
    /\ args[1].outcome.execution_outcome.id = args[1].transaction.hash
    /\ entry.receipts # <<>>
    /\ Len(entry.execution_outcomes) = 3
    /\ ret = TransactionKey(args[1].transaction.hash, 1)

\* The positions the closure has been called on are the ones ahead of the
\* iterator, each once.
FrontToBackOnce ==
    locals # NoLocals =>
        /\ locals.iter <= Len(entry.execution_outcomes) + 1
        /\ \A k \in 1..Len(entry.execution_outcomes) :
               locals.visits[k] = IF k < locals.iter THEN 1 ELSE 0

\* The walk has returned.
WalkReturned == locals # NoLocals /\ ret # NoRet

\* C24: on every execution_outcomes list, links that form a cycle or point
\* at the same outcome again included, final_status returns; up to then it
\* has called the closure on each outcome at most once, in list order
\* without a gap; it returns None only with every outcome examined, and
\* what it returns is the status the chain of links gives.
C24_FinalStatusTerminates ==
    /\ []FrontToBackOnce
    /\ [](WalkReturned =>
              /\ ret = final_status(entry)
              /\ ret = None => locals.iter = Len(entry.execution_outcomes) + 1)
    /\ <>WalkReturned

\* The walk has returned None on a list of three outcomes in which the
\* transaction's outcome links to R1, R1 links to R2 and R2 links back to R1.
C24_Witness ==
    /\ WalkReturned
    /\ ret = None
    /\ Len(entry.execution_outcomes) = 3
    /\ entry.execution_outcomes[1] =
           ExecutionOutcomeWithIdView("T", SuccessReceiptId("R1"), <<"R1">>)
    /\ entry.execution_outcomes[2] =
           ExecutionOutcomeWithIdView("R1", SuccessReceiptId("R2"), <<"R2">>)
    /\ entry.execution_outcomes[3] =
           ExecutionOutcomeWithIdView("R2", SuccessReceiptId("R1"), <<"R1">>)
    /\ \A k \in 1..3 : locals.visits[k] = 1

\* The stored numbers of a row, and the numeric fields of the value
\* converted from it, in the same order.
NumbersOfRow(row) ==
    CASE row.to = "BlockHeightShardId" -> <<row.value[1], row.value[2]>>
      [] row.to = "ReceiptRecord" -> <<row.value[4], row.value[6]>>
      [] row.to = "BlockRecord" -> <<row.value[2]>>
NumbersOfValue(row, converted) ==
    CASE row.to = "BlockHeightShardId" -> <<converted[1], converted[2]>>
      [] row.to = "ReceiptRecord" -> <<converted.block_height, converted.shard_id>>
      [] row.to = "BlockRecord" -> <<converted.height>>

FitsU64(number) == 0 <= number /\ number <= U64_MAX

====
